---------------------------- MODULE Spec2Model ----------------------------
(* A state-machine model of the monitoring dashboard engine                *)
(* (src/web/static/js/monitoring.js).  The dashboard is one object whose   *)
(* methods run as event handlers: user-interface events, timer ticks and   *)
(* the continuations of fetch() promises.  Each handler runs to            *)
(* completion, so each is one action.  The browser's timer table, the      *)
(* network and the backend service are the environment.                    *)
EXTENDS Integers, Sequences, FiniteSets, TLC

(***************************************************************************)
(* Bounds of the model                                                     *)
(***************************************************************************)
\* messages that may be in flight at once
MaxInFlight == 3
\* setInterval calls in one behaviour (timer handles are never reused)
MaxTimerId == 2
\* instants of the clock
MaxTime == 2
\* notifications displayed at once
MaxToasts == 1
\* entries the backend keeps in the alert history
MaxHistory == 2
\* alerts the backend holds
MaxAlerts == 2

(***************************************************************************)
(* Values                                                                  *)
(***************************************************************************)
\* null / undefined for handles and instants
Null == 0

Tabs == {"system", "performance", "alerts", "logs"}

\* the values of the options of the auto-refresh select
RefreshOptions == {0, 5, 10, 30, 60}

\* the selected option of the auto-refresh select when the page loads
DefaultRefresh == 10

ChartSlots == {"cpu", "memory", "disk", "network", "performance", "logLevels"}

StartLabel == "Start Monitoring"
StopLabel == "Stop Monitoring"

VARIABLES
    initialized,      \* init() has run (the listeners are registered)
    currentTab,       \* MonitoringDashboard.currentTab
    activePane,       \* the tab panes carrying the class "active"
    refreshTimer,     \* MonitoringDashboard.refreshTimer (Null or a handle)
    liveTimers,       \* the browser's table of armed interval timers
    nextTimerId,      \* the handle the next setInterval returns
    autoRefresh,      \* the value of the auto-refresh select
    lastRefresh,      \* MonitoringDashboard.lastRefresh (Null or an instant)
    now,              \* the clock
    monitoringActive, \* MonitoringDashboard.monitoringActive
    button,           \* the toggle-monitoring button: text and class
    net,              \* fetch() calls in flight, in the order they were issued
    toasts,           \* the notifications displayed, oldest first
    charts,           \* MonitoringDashboard.charts: slot -> handle or Null
    chartData,        \* the data object of each slot's chart
    nextChartId,      \* the identity the next new Chart(...) gets
    metricTables,     \* the rows of the four metric tables of the system tab
    sysInfoView,      \* the system-info container
    perfTable,        \* the rows of the performance table
    perfCategory,     \* the performance-category select: options and value
    perfMetric,       \* the performance-metric select: options and index
    logEntries,       \* the log entries of the logs container, in its order
    logVisible,       \* the log entries of the logs container: visible or not
    logFilter,        \* the log filter controls: level, component, search
    alertView,        \* the rendered active alerts, in rendered order
    alertCounts,      \* the four severity counters
    historyView,      \* the rows of the alert-history table
    form,             \* the create-alert form: name and description
    srvMonitoring,    \* backend: the monitoring system is running
    srvAlerts,        \* backend: the alerts, in the order it lists them
    srvHistory,       \* backend: the alert history, oldest first
    event             \* the handler that ran last

tabVars == <<currentTab, activePane>>
timerVars == <<refreshTimer, liveTimers, nextTimerId, autoRefresh>>
togVars == <<monitoringActive, button>>
chartVars == <<charts, chartData, nextChartId>>
sysVars == <<metricTables, sysInfoView>>
perfVars == <<perfTable, perfCategory, perfMetric>>
logVars == <<logEntries, logVisible, logFilter>>
alertVars == <<alertView, alertCounts, historyView>>
srvVars == <<srvMonitoring, srvAlerts, srvHistory>>

vars == <<initialized, currentTab, activePane, refreshTimer, liveTimers,
          nextTimerId, autoRefresh, lastRefresh, now, monitoringActive, button, net,
          toasts, charts, chartData, nextChartId, metricTables, sysInfoView,
          perfTable, perfCategory, perfMetric, logEntries, logVisible, logFilter,
          alertView,
          alertCounts, historyView, form, srvMonitoring, srvAlerts,
          srvHistory, event>>

(***************************************************************************)
(* The network.  A message is one fetch() call.  The backend answers the   *)
(* calls that read or change its state in a step of its own (done), so a   *)
(* response is a snapshot of the backend at the instant it was computed;   *)
(* the answers to the other calls are chosen when they are delivered.      *)
(***************************************************************************)
Req(kind, arg, flag) ==
    [kind |-> kind, arg |-> arg, cat |-> "", flag |-> flag, done |-> FALSE,
     status |-> "", message |-> "", alerts |-> <<>>, history |-> <<>>]

\* a faulty variant: a response cancels the calls issued before it
RemoveThrough(s, i) == SubSeq(s, i + 1, Len(s))

\* a faulty variant: the call is taken out of flight and sent again
RemoveAndRetry(s, i) ==
    [j \in 1..Len(s) |->
        IF j < i THEN s[j] ELSE IF j < Len(s) THEN s[j + 1] ELSE s[i]]

\* the sequence s without its i-th element
RemoveAt(s, i) == [j \in 1..(Len(s) - 1) |-> IF j < i THEN s[j] ELSE s[j + 1]]

\* room for n more calls
Room(n) == Len(net) + n <= MaxInFlight

(***************************************************************************)
(* Auto-refresh scheduler: setAutoRefresh                                  *)
(***************************************************************************)
\* a faulty variant: the previous timer is not cleared
ClearTimerSkipped(timers, handle) == timers

\* if (this.refreshTimer) { clearInterval(this.refreshTimer); ... }
\* clearInterval of a handle removes it from the browser's timer table

ClearTimer(timers, handle) ==
    IF handle # Null THEN timers \ {handle} ELSE timers

\* a faulty variant: a timer is armed for the interval 0 too
ArmsAlways(seconds) == seconds >= 0

\* if (seconds > 0) { this.refreshTimer = setInterval(...) }

Arms(seconds) == seconds > 0

\* the timer table and the handle after setAutoRefresh(seconds)
TimersAfterSet(seconds) ==
    IF Arms(seconds)
    THEN ClearTimer(liveTimers, refreshTimer) \cup {nextTimerId}
    ELSE ClearTimer(liveTimers, refreshTimer)

HandleAfterSet(seconds) == IF Arms(seconds) THEN nextTimerId ELSE Null

SetAutoRefreshEffect(seconds) ==
    /\ liveTimers' = TimersAfterSet(seconds)
    /\ refreshTimer' = HandleAfterSet(seconds)
    /\ nextTimerId' = IF Arms(seconds) THEN nextTimerId + 1 ELSE nextTimerId

\* an arming call needs a fresh handle
TimerRoom(seconds) == Arms(seconds) => nextTimerId <= MaxTimerId

(***************************************************************************)
(* Tab-scoped loads: loadTabData and the load routines                     *)
(***************************************************************************)
LoadSystemMetrics == <<Req("metrics", "system", FALSE)>>

LoadPerformanceMetrics == <<Req("performance", perfCategory.value, FALSE)>>

LoadAlerts == <<Req("alerts", "", FALSE), Req("history", "", FALSE)>>

CheckMonitoringStatus == <<Req("status", "", FALSE)>>

\* a faulty variant: the case of the system tab falls through to the next
LoadTabDataFallingThrough(tabName) ==
    CASE tabName = "system" -> LoadSystemMetrics \o LoadPerformanceMetrics
      [] tabName = "performance" -> LoadPerformanceMetrics
      [] tabName = "alerts" -> LoadAlerts
      [] OTHER -> <<>>

\* the fetch() calls loadTabData(tabName) issues
LoadTabData(tabName) ==
    CASE tabName = "system" -> LoadSystemMetrics
      [] tabName = "performance" -> LoadPerformanceMetrics
      [] tabName = "alerts" -> LoadAlerts
      [] OTHER -> <<>>

\* a faulty variant: the monitoring status is not checked
RefreshRequestsWithoutStatus == LoadTabData(currentTab)

\* the fetch() calls refreshDashboard issues
RefreshRequests == LoadTabData(currentTab) \o CheckMonitoringStatus


(***************************************************************************)
(* Metric series and their names                                           *)
(***************************************************************************)
\* the words the engine looks for in a metric name (String.includes)
MetricWords(name) ==
    CASE name = "system.cpu_percent" -> {"cpu", "percent"}
      [] name = "system.memory_percent" -> {"memory", "percent"}
      [] name = "system.disk_root_percent" -> {"disk", "percent"}
      [] name = "system.disk_data_percent" -> {"disk", "percent"}
      [] name = "system.network_total_bytes_recv_per_sec" ->
             {"network", "bytes", "per_sec"}
      [] name = "system.network_total_bytes_sent_per_sec" ->
             {"network", "bytes", "per_sec"}
      [] name = "system.cpu_memory_ratio" -> {"cpu", "memory"}
      [] name = "system.load_average" -> {}
      [] name = "system.memory_bytes_percent" -> {"memory", "bytes", "percent"}
      [] name = "system.disk_percent_per_sec" -> {"disk", "percent", "per_sec"}
      [] name = "system.memory_available_bytes" -> {"memory", "bytes"}
      [] name = "system.disk_reads_per_sec" -> {"disk", "per_sec"}
      [] OTHER -> {}

Includes(name, word) == word \in MetricWords(name)

\* a metric of a response: [name, values], values a sequence of <<timestamp, value>>
Metric(name, values) == [name |-> name, values |-> values]

\* formatTime(new Date(ts)): the clock time (hh:mm:ss) of the instant ts, in
\* milliseconds, as the second of its day
FormatTime(ts) == (ts \div 1000) % 86400

Labels(series) == [i \in 1..Len(series) |-> FormatTime(series[i][1])]

Values(series) == [i \in 1..Len(series) |-> series[i][2]]

\* item[1] / 1024, kept exact as a fraction
KiloValues(series) ==
    [i \in 1..Len(series) |-> [num |-> series[i][2], den |-> 1024]]

\* metrics[name] || []
Lookup(metrics, name) ==
    LET idx == {i \in 1..Len(metrics) : metrics[i].name = name}
    IN  IF idx = {} THEN <<>> ELSE metrics[CHOOSE i \in idx : TRUE].values

\* a faulty variant: the words are tested in the order network, disk,
\* memory, cpu
BucketOfLastMatch(name) ==
    CASE Includes(name, "network") -> "network"
      [] Includes(name, "disk") /\ ~Includes(name, "network") -> "disk"
      [] Includes(name, "memory") /\ ~Includes(name, "network")
             /\ ~Includes(name, "disk") -> "memory"
      [] Includes(name, "cpu") /\ ~Includes(name, "network")
             /\ ~Includes(name, "disk") /\ ~Includes(name, "memory") -> "cpu"
      [] OTHER -> ""

\* the bucket of a metric name: the first of cpu, memory, disk, network its
\* name includes, "" when it includes none
BucketOf(name) ==
    CASE Includes(name, "cpu") -> "cpu"
      [] Includes(name, "memory") /\ ~Includes(name, "cpu") -> "memory"
      [] Includes(name, "disk") /\ ~Includes(name, "cpu")
             /\ ~Includes(name, "memory") -> "disk"
      [] Includes(name, "network") /\ ~Includes(name, "cpu")
             /\ ~Includes(name, "memory") /\ ~Includes(name, "disk") -> "network"
      [] OTHER -> ""

\* the metrics of a response that go to one bucket, in the response's order
Bucket(metricsData, b) ==
    SelectSeq(metricsData, LAMBDA m : BucketOf(m.name) = b)

\* updateDiskChart: the first series (in key order) whose name includes
\* "percent", skipping over empty ones
RECURSIVE DiskPercentData(_, _)
DiskPercentData(diskMetrics, acc) ==
    IF diskMetrics = <<>> THEN acc
    ELSE LET m == Head(diskMetrics)
         IN  DiskPercentData(Tail(diskMetrics),
                 IF Includes(m.name, "percent") /\ Len(acc) = 0
                 THEN m.values ELSE acc)

(***************************************************************************)
(* Chart slots: create on first render, mutate afterwards                  *)
(***************************************************************************)
NoChart == [labels |-> <<>>, datasets |-> <<>>, title |-> ""]

\* a faulty variant: a chart is constructed at every render
NeedsCreateAlways(handle) == TRUE

\* if (!this.charts.cpu) { this.charts.cpu = new Chart(...) } else { ... }
NeedsCreate(handle) == handle = Null

\* new Chart(ctx, {data: {labels, datasets: [{label, data}, ...]}, ...})
CreateChart(labels, names, datas, title) ==
    [labels |-> labels,
     datasets |-> [i \in 1..Len(datas) |-> [label |-> names[i], data |-> datas[i]]],
     title |-> title]

\* a faulty variant: the new samples are appended to the old ones
UpdateChartMerging(chart, labels, datas) ==
    [chart EXCEPT
        !.labels = chart.labels \o labels,
        !.datasets = [i \in DOMAIN chart.datasets |->
            IF i <= Len(datas)
            THEN [chart.datasets[i] EXCEPT !.data = chart.datasets[i].data \o datas[i]]
            ELSE chart.datasets[i]]]

\* chart.data.labels = labels; chart.data.datasets[i].data = datas[i]; update()
UpdateChart(chart, labels, datas) ==
    [chart EXCEPT
        !.labels = labels,
        !.datasets = [i \in DOMAIN chart.datasets |->
            IF i <= Len(datas)
            THEN [chart.datasets[i] EXCEPT !.data = datas[i]]
            ELSE chart.datasets[i]]]

\* the data object of a slot after one render of it
Rendered(slot, labels, names, datas, title) ==
    IF NeedsCreate(charts[slot])
    THEN CreateChart(labels, names, datas, title)
    ELSE UpdateChart(chartData[slot], labels, datas)

\* the charts constructed when the slots of the sequence are rendered in order
Created(slots) == {k \in 1..Len(slots) : NeedsCreate(charts[slots[k]])}

\* MonitoringDashboard.charts after the slots of the sequence are rendered
ChartsAfter(slots) ==
    [c \in ChartSlots |->
        IF \E k \in Created(slots) : slots[k] = c
        THEN LET k == CHOOSE x \in Created(slots) : slots[x] = c
             IN  nextChartId + Cardinality({j \in Created(slots) : j < k})
        ELSE charts[c]]

SystemSlots == <<"cpu", "memory", "disk", "network">>

\* a faulty variant: the sent series first
NetworkDatasetsSwapped(recv, sent) == <<KiloValues(sent), KiloValues(recv)>>

\* updateNetworkChart: datasets[0].data = recvData, datasets[1].data = sentData
NetworkDatasets(recv, sent) == <<KiloValues(recv), KiloValues(sent)>>

\* updateCpuChart, updateMemoryChart, updateDiskChart, updateNetworkChart
SystemChart(slot, metricsData) ==
    LET b == Bucket(metricsData, slot)
        cpuSeries == Lookup(b, "system.cpu_percent")
        memSeries == Lookup(b, "system.memory_percent")
        diskSeries == DiskPercentData(b, <<>>)
        recv == Lookup(b, "system.network_total_bytes_recv_per_sec")
        sent == Lookup(b, "system.network_total_bytes_sent_per_sec")
    IN  CASE slot = "cpu" ->
               Rendered(slot, Labels(cpuSeries), <<"CPU Usage">>,
                        <<Values(cpuSeries)>>, "")
          [] slot = "memory" ->
               Rendered(slot, Labels(memSeries), <<"Memory Usage">>,
                        <<Values(memSeries)>>, "")
          [] slot = "disk" ->
               Rendered(slot, Labels(diskSeries), <<"Disk Usage">>,
                        <<Values(diskSeries)>>, "")
          [] slot = "network" ->
               Rendered(slot, Labels(recv), <<"Received", "Sent">>,
                        NetworkDatasets(recv, sent), "")

\* a displayed number: its value in hundredths; fixed when it is written
\* with two decimals always (toFixed), not when trailing zeros are dropped
\* (parseFloat, toString); then the unit of formatBytes and what follows
Shown(hundredths, fixed, unit, suffix) ==
    [hundredths |-> hundredths, fixed |-> fixed, unit |-> unit,
     suffix |-> suffix]

\* (num / den).toFixed(2), in hundredths, for num >= 0: the nearest
\* hundredth, the larger one of two equally near.  The engine's numbers are
\* doubles; a quotient by a power of two is exact in the range modelled
ToFixed2(num, den) == (200 * num + den) \div (2 * den)

\* the units of formatBytes
Sizes == <<"Bytes", "KB", "MB", "GB", "TB", "PB", "EB", "ZB", "YB">>

\* Math.pow(k, i) with k = 1024
RECURSIVE Pow1024(_)
Pow1024(i) == IF i = 0 THEN 1 ELSE 1024 * Pow1024(i - 1)

\* Math.floor(Math.log(bytes) / Math.log(k)) for an integer bytes >= 1
RECURSIVE UnitIndex(_)
UnitIndex(bytes) == IF bytes < 1024 THEN 0 ELSE 1 + UnitIndex(bytes \div 1024)

\* formatBytes(bytes) for an integer bytes >= 0
FormatBytes(bytes) ==
    IF bytes = 0 THEN Shown(0, FALSE, "Bytes", "")
    ELSE LET i == UnitIndex(bytes)
         IN  Shown(ToFixed2(bytes, Pow1024(i)), FALSE, Sizes[i + 1], "")

\* a faulty variant: the name is tested for bytes before percent
MetricFormatBytesFirst(name) ==
    CASE Includes(name, "bytes") -> "bytes"
      [] ~Includes(name, "bytes") /\ Includes(name, "percent") -> "percent"
      [] ~Includes(name, "percent") /\ ~Includes(name, "bytes")
             /\ Includes(name, "per_sec") -> "rate"
      [] OTHER -> "plain"

\* the display format updateMetricTable picks for a metric name
MetricFormat(name) ==
    CASE Includes(name, "percent") -> "percent"
      [] ~Includes(name, "percent") /\ Includes(name, "bytes") -> "bytes"
      [] ~Includes(name, "percent") /\ ~Includes(name, "bytes")
             /\ Includes(name, "per_sec") -> "rate"
      [] OTHER -> "plain"

\* formattedValue of updateMetricTable for an integer latestValue >= 0
FormattedValue(name, latestValue) ==
    CASE MetricFormat(name) = "percent" ->
             Shown(ToFixed2(latestValue, 1), TRUE, "", "%")
      [] MetricFormat(name) = "bytes" -> FormatBytes(latestValue)
      [] MetricFormat(name) = "rate" ->
             IF Includes(name, "bytes")
             THEN [FormatBytes(latestValue) EXCEPT !.suffix = "/s"]
             ELSE Shown(ToFixed2(latestValue, 1), TRUE, "", "/s")
      [] OTHER -> Shown(100 * latestValue, FALSE, "", "")

\* updateMetricTable: one row per metric that has samples, with its latest one
MetricTable(metrics) ==
    LET withData == SelectSeq(metrics, LAMBDA m : Len(m.values) > 0)
    IN  [i \in 1..Len(withData) |->
            [name |-> withData[i].name,
             format |-> MetricFormat(withData[i].name),
             value |-> withData[i].values[Len(withData[i].values)][2],
             text |-> FormattedValue(withData[i].name,
                          withData[i].values[Len(withData[i].values)][2])]]

\* updateSystemCharts(metricsData): the four charts and the four tables
UpdateSystemCharts(metricsData) ==
    /\ charts' = ChartsAfter(SystemSlots)
    /\ nextChartId' = nextChartId + Cardinality(Created(SystemSlots))
    /\ chartData' = [c \in ChartSlots |->
           IF c \in {"cpu", "memory", "disk", "network"}
           THEN SystemChart(c, metricsData) ELSE chartData[c]]
    /\ metricTables' = [t \in {"cpu", "memory", "disk", "network"} |->
           MetricTable(Bucket(metricsData, t))]


(***************************************************************************)
(* Sorting                                                                 *)
(***************************************************************************)
\* Array.prototype.sort by an integer key: stable, ascending.  The element
\* at position i moves behind the elements with a smaller key and behind the
\* earlier elements with the same key.
SortPosition(keys, i) ==
    1 + Cardinality({j \in 1..Len(keys) :
            keys[j] < keys[i] \/ (keys[j] = keys[i] /\ j < i)})

StableSort(seq, keys) ==
    [k \in 1..Len(seq) |-> seq[CHOOSE i \in 1..Len(seq) : SortPosition(keys, i) = k]]

(***************************************************************************)
(* Performance tab                                                         *)
(***************************************************************************)
\* the strings of the performance data in String.localeCompare order
LocaleOrder ==
    <<"agent", "api", "init", "request", "request_count", "request_duration",
      "task", "task_duration">>

LocaleRank(str) == CHOOSE i \in 1..Len(LocaleOrder) : LocaleOrder[i] = str

\* name.replace(/_duration$/, '')
StripDuration(name) ==
    CASE name = "request_duration" -> "request"
      [] name = "task_duration" -> "task"
      [] OTHER -> name

\* one category of a performance response: [category, metrics], metrics a
\* sequence of [name, stats]
PerfCategory(category, metrics) == [category |-> category, metrics |-> metrics]

\* Object.entries of the two levels, flattened in the response's order
RECURSIVE PerfRows(_)
PerfRows(metricsData) ==
    IF metricsData = <<>> THEN <<>>
    ELSE LET c == Head(metricsData)
         IN  [i \in 1..Len(c.metrics) |->
                 [name |-> StripDuration(c.metrics[i].name),
                  category |-> c.category,
                  stats |-> c.metrics[i].stats]]
             \o PerfRows(Tail(metricsData))

\* a faulty variant: the rows are sorted by name only
PerformanceTableByName(metricsData) ==
    LET rows == PerfRows(metricsData)
        keys == [i \in 1..Len(rows) |-> LocaleRank(rows[i].name)]
    IN  StableSort(rows, keys)

\* updatePerformanceTable: the rows sorted by category, then by name
PerformanceTable(metricsData) ==
    LET rows == PerfRows(metricsData)
        keys == [i \in 1..Len(rows) |->
                    LocaleRank(rows[i].category) * (Len(LocaleOrder) + 1)
                    + LocaleRank(rows[i].name)]
    IN  StableSort(rows, keys)

Categories(metricsData) == [i \in 1..Len(metricsData) |-> metricsData[i].category]

Member(seq, x) == \E i \in 1..Len(seq) : seq[i] = x

\* updatePerformanceCategoryOptions: the options are replaced by the categories
\* of the response; the value is kept when it is still an option, and is the
\* first option ("", all categories) otherwise
CategorySelectAfter(metricsData) ==
    [options |-> Categories(metricsData),
     value |-> IF perfCategory.value # ""
                  /\ Member(Categories(metricsData), perfCategory.value)
               THEN perfCategory.value ELSE ""]

RECURSIVE AllMetricNames(_)
AllMetricNames(metricsData) ==
    IF metricsData = <<>> THEN <<>>
    ELSE [i \in 1..Len(Head(metricsData).metrics) |->
             Head(metricsData).metrics[i].name]
         \o AllMetricNames(Tail(metricsData))

\* the value of the performance-metric select ("" for the first option)
MetricSelectValue(sel) == IF sel.index = 0 THEN "" ELSE sel.options[sel.index]

FirstIndex(seq, x) == CHOOSE i \in 1..Len(seq) : seq[i] = x /\ \A j \in 1..(i - 1) : seq[j] # x

\* populatePerformanceMetricOptions, after the category select was updated
MetricSelectAfter(metricsData) ==
    LET category == CategorySelectAfter(metricsData).value
        metrics == IF category # ""
                   THEN AllMetricNames(SelectSeq(metricsData,
                            LAMBDA c : c.category = category))
                   ELSE AllMetricNames(metricsData)
        currentValue == MetricSelectValue(perfMetric)
    IN  [options |-> metrics,
         index |-> IF currentValue # "" /\ Member(metrics, currentValue)
                   THEN FirstIndex(metrics, currentValue)
                   ELSE IF Len(metrics) > 0 THEN 1 ELSE 0]

\* a single-metric history call: /api/monitoring/metrics/{fullMetricName}?limit=100
ReqHistory(category, metricName) ==
    [Req("perfhist", metricName, FALSE) EXCEPT !.cat = category]

\* updatePerformanceChart(): the fetch() it issues for the selects cat and sel
UpdatePerformanceChart(cat, sel) ==
    IF sel.index <= 0 THEN <<>>
    ELSE <<ReqHistory(cat.value, MetricSelectValue(sel))>>

(***************************************************************************)
(* Logs tab                                                                *)
(***************************************************************************)
LogLevels == <<"DEBUG", "INFO", "WARNING", "ERROR", "CRITICAL">>

Log(level, component) == [level |-> level, component |-> component]

\* the log filter controls of the template: the level select has the option
\* INFO selected, the component select has the one option "", the search
\* input is empty (a text is a sequence of characters)
DefaultFilter == [level |-> "INFO", component |-> "", search |-> <<>>]

\* the placeholder logs of simulateLogs
SimulatedLogs ==
    <<Log("INFO", "system"), Log("INFO", "agent"), Log("INFO", "api"),
      Log("DEBUG", "agent"), Log("WARNING", "agent"), Log("ERROR", "api"),
      Log("INFO", "scheduler"), Log("DEBUG", "memory"), Log("INFO", "agent"),
      Log("CRITICAL", "system"), Log("WARNING", "scheduler"), Log("INFO", "api"),
      Log("DEBUG", "agent"), Log("ERROR", "scheduler"), Log("INFO", "system")>>

\* levelCounts, in the order of the pie chart's labels
LevelCounts ==
    [i \in 1..Len(LogLevels) |->
        Cardinality({j \in 1..Len(SimulatedLogs) : SimulatedLogs[j].level = LogLevels[i]})]

\* the logs container after simulateLogs: one entry for each placeholder
\* log, in the order of the array (an entry is named by its position there)
Container == [k \in 1..Len(SimulatedLogs) |-> k]

\* loadLogs(): initLogLevelChart on the first call, then simulateLogs, which
\* fills the container and sets the pie chart's data to the level counts
LoadLogs ==
    LET chart == IF NeedsCreate(charts["logLevels"])
                 THEN CreateChart(LogLevels, <<"">>, <<<<0, 0, 0, 0, 0>>>>, "Log Levels")
                 ELSE chartData["logLevels"]
    IN  /\ charts' = ChartsAfter(<<"logLevels">>)
        /\ nextChartId' = nextChartId + Cardinality(Created(<<"logLevels">>))
        /\ chartData' = [chartData EXCEPT !["logLevels"] =
               [chart EXCEPT !.datasets[1].data = LevelCounts]]
        /\ logEntries' = Container
        /\ logVisible' = [i \in 1..Len(Container) |-> TRUE]
        /\ logFilter' = [logFilter EXCEPT !.component = ""]

\* the part of loadTabData(tabName) that changes the page at once
LoadTabEffect(tabName) ==
    IF tabName = "logs" THEN LoadLogs
    ELSE UNCHANGED <<charts, chartData, nextChartId, logVars>>


(***************************************************************************)
(* Notifications                                                           *)
(***************************************************************************)
\* a toast: its type, its fixed text, and what the text interpolates
Toast(type, text, detail) == [type |-> type, text |-> text, detail |-> detail]

\* showToast(message, type) appends one toast to the container
ShowToast(t) == toasts' = Append(toasts, t)

ToastRoom == Len(toasts) < MaxToasts

(***************************************************************************)
(* Alerts tab                                                              *)
(***************************************************************************)
Severities == {"critical", "error", "warning", "info"}

Alert(name, severity, status, silenced) ==
    [name |-> name, severity |-> severity, status |-> status, silenced |-> silenced]

\* a faulty variant: the severities are ranked alphabetically
SeverityOrderAlphabetical(severity) ==
    CASE severity = "critical" -> 0
      [] severity = "error" -> 1
      [] severity = "info" -> 2
      [] severity = "warning" -> 3

\* severityOrder of renderActiveAlerts
SeverityOrder(severity) ==
    CASE severity = "critical" -> 0
      [] severity = "error" -> 1
      [] severity = "warning" -> 2
      [] severity = "info" -> 3

\* a faulty variant: a counter also counts the alerts of the graver
\* severities
SeverityCountsCumulative(alerts) ==
    [sev \in Severities |->
        Cardinality({i \in 1..Len(alerts) :
                        SeverityOrder(alerts[i].severity) <= SeverityOrder(sev)})]

\* updateAlertStatus: the alerts of the response counted by severity
SeverityCounts(alerts) ==
    [sev \in Severities |->
        Cardinality({i \in 1..Len(alerts) : alerts[i].severity = sev})]

\* [...alerts].sort((a, b) => severityOrder[a.severity] -
\* severityOrder[b.severity]): the sorted copy, and the array passed in as
\* the call leaves it
SortedCopy(alerts) ==
    [received |-> alerts,
     sorted |-> StableSort(alerts,
                    [i \in 1..Len(alerts) |-> SeverityOrder(alerts[i].severity)])]

\* renderActiveAlerts: the alerts of the response, sorted by severity
RenderActiveAlerts(alerts) == SortedCopy(alerts).sorted

\* a faulty variant: the acknowledge button is rendered for every alert
OffersAcknowledgeAlways(alert) == TRUE

\* alert.status === 'active' ? <button data-action="acknowledge" ...> : ''
OffersAcknowledge(alert) == alert.status = "active"

\* the create-alert form
Form(name, description, severity) ==
    [name |-> name, description |-> description, severity |-> severity]

\* a faulty variant: only the name is required
FormMissingNameOnly(f) == f.name = ""

\* if (!name || !description)
FormMissing(f) == f.name = "" \/ f.description = ""

\* the fetch() of a transition
ReqAcknowledge(alertName) == Req("acknowledge", alertName, FALSE)

ReqResolve(alertName) == Req("resolve", alertName, FALSE)

ReqSilence(alertName, silence) == Req("silence", alertName, silence)

ReqCreate(f) == [Req("create", f.name, FALSE) EXCEPT !.cat = f.severity]

Transitions == {"create", "acknowledge", "resolve", "silence"}

\* the success notification of a transition
SuccessToast(m) ==
    CASE m.kind = "create" -> Toast("success", "Alert created", m.arg)
      [] m.kind = "acknowledge" -> Toast("success", "Alert acknowledged", m.arg)
      [] m.kind = "resolve" -> Toast("success", "Alert resolved", m.arg)
      [] m.kind = "silence" /\ m.flag -> Toast("success", "Alert silenced", m.arg)
      [] m.kind = "silence" /\ ~m.flag -> Toast("success", "Alert unsilenced", m.arg)

\* the notification of a transition the backend answered with a failure
FailedToast(m) ==
    CASE m.kind = "create" -> Toast("error", "Failed to create alert", m.message)
      [] m.kind = "acknowledge" ->
             Toast("error", "Failed to acknowledge alert", m.message)
      [] m.kind = "resolve" -> Toast("error", "Failed to resolve alert", m.message)
      [] m.kind = "silence" /\ m.flag ->
             Toast("error", "Failed to silence alert", m.message)
      [] m.kind = "silence" /\ ~m.flag ->
             Toast("error", "Failed to unsilence alert", m.message)

\* the notification of a transition that failed in transport or decoding
ErrorToast(m) ==
    CASE m.kind = "create" -> Toast("error", "Error creating alert", "")
      [] m.kind = "acknowledge" -> Toast("error", "Error acknowledging alert", "")
      [] m.kind = "resolve" -> Toast("error", "Error resolving alert", "")
      [] m.kind = "silence" /\ m.flag -> Toast("error", "Error silencing alert", "")
      [] m.kind = "silence" /\ ~m.flag -> Toast("error", "Error unsilencing alert", "")

\* a faulty variant: no reload after a successful transition
ReloadNothing == <<>>

\* this.loadAlerts() in the success branch of a transition
ReloadAfterTransition == LoadAlerts


(***************************************************************************)
(* The backend service (monitoring/alerting.py and the API routes are not  *)
(* part of the sources at hand: modelled from the specification, sections  *)
(* 3, 4.4 and 6)                                                           *)
(***************************************************************************)
HistoryEntry(alertName, action) == [alert |-> alertName, action |-> action]

\* GET /api/monitoring/alerts: the alerts that are not resolved
ActiveAlerts(alerts) == SelectSeq(alerts, LAMBDA a : a.status # "resolved")

HasAlert(alertName, statuses) ==
    \E k \in 1..Len(srvAlerts) :
        srvAlerts[k].name = alertName /\ srvAlerts[k].status \in statuses

AlertStatuses == {"active", "acknowledged", "resolved"}

\* the backend accepts the transition m in its current state
Accepts(m) ==
    CASE m.kind = "create" ->
             ~HasAlert(m.arg, AlertStatuses) /\ Len(srvAlerts) < MaxAlerts
      [] m.kind = "acknowledge" -> HasAlert(m.arg, {"active"})
      [] m.kind = "resolve" -> HasAlert(m.arg, {"active", "acknowledged"})
      [] m.kind = "silence" -> HasAlert(m.arg, {"active", "acknowledged"})
      [] OTHER -> FALSE

\* the alerts after the accepted transition m
AlertsAfter(m) ==
    CASE m.kind = "create" ->
             Append(srvAlerts, Alert(m.arg, m.cat, "active", FALSE))
      [] m.kind = "acknowledge" ->
             [k \in 1..Len(srvAlerts) |->
                 IF srvAlerts[k].name = m.arg
                 THEN [srvAlerts[k] EXCEPT !.status = "acknowledged"]
                 ELSE srvAlerts[k]]
      [] m.kind = "resolve" ->
             [k \in 1..Len(srvAlerts) |->
                 IF srvAlerts[k].name = m.arg
                 THEN [srvAlerts[k] EXCEPT !.status = "resolved"]
                 ELSE srvAlerts[k]]
      [] m.kind = "silence" ->
             [k \in 1..Len(srvAlerts) |->
                 IF srvAlerts[k].name = m.arg
                 THEN [srvAlerts[k] EXCEPT !.silenced = m.flag]
                 ELSE srvAlerts[k]]

\* the label of the history entry of the transition m
ActionLabel(m) ==
    CASE m.kind = "create" -> "triggered"
      [] m.kind = "acknowledge" -> "acknowledged"
      [] m.kind = "resolve" -> "resolved"
      [] m.kind = "silence" /\ m.flag -> "silenced"
      [] m.kind = "silence" /\ ~m.flag -> "unsilenced"

\* the message of a failure response
ServerMessage == "denied"

\* the handler that ran: its name, its argument, and what it was given
Ev(op, arg, n) == [op |-> op, arg |-> arg, n |-> n, data |-> <<>>]

\* the backend answers a read: a snapshot of its state
ServerRead(i) ==
    /\ i \in 1..Len(net)
    /\ ~net[i].done
    /\ net[i].kind \in {"status", "alerts", "history"}
    /\ net' = [net EXCEPT
           ![i].done = TRUE,
           ![i].status = IF net[i].kind = "status"
                         THEN (IF srvMonitoring THEN "active" ELSE "inactive")
                         ELSE "",
           ![i].alerts = IF net[i].kind = "alerts"
                         THEN ActiveAlerts(srvAlerts) ELSE <<>>,
           ![i].history = IF net[i].kind = "history" THEN srvHistory ELSE <<>>]
    /\ event' = Ev("server", net[i].kind, 0)
    /\ UNCHANGED <<initialized, tabVars, timerVars, lastRefresh, now, togVars,
                   toasts, chartVars, sysVars, perfVars, logVars, alertVars,
                   form, srvVars>>

\* the backend starts or stops the monitoring system
ServerControl(i) ==
    /\ i \in 1..Len(net)
    /\ ~net[i].done
    /\ net[i].kind \in {"start", "stop"}
    /\ srvMonitoring' = (net[i].kind = "start")
    /\ net' = [net EXCEPT ![i].done = TRUE, ![i].status = "success"]
    /\ event' = Ev("server", net[i].kind, 0)
    /\ UNCHANGED <<initialized, tabVars, timerVars, lastRefresh, now, togVars,
                   toasts, chartVars, sysVars, perfVars, logVars, alertVars,
                   form, srvAlerts, srvHistory>>

\* the backend carries out a transition of an alert and records it
ServerTransition(i) ==
    /\ i \in 1..Len(net)
    /\ ~net[i].done
    /\ net[i].kind \in Transitions
    /\ Accepts(net[i])
    /\ Len(srvHistory) < MaxHistory
    /\ srvAlerts' = AlertsAfter(net[i])
    /\ srvHistory' = Append(srvHistory, HistoryEntry(net[i].arg, ActionLabel(net[i])))
    /\ net' = [net EXCEPT ![i].done = TRUE, ![i].status = "success"]
    /\ event' = Ev("server", net[i].kind, 0)
    /\ UNCHANGED <<initialized, tabVars, timerVars, lastRefresh, now, togVars,
                   toasts, chartVars, sysVars, perfVars, logVars, alertVars,
                   form, srvMonitoring>>

\* the backend refuses a transition its state machine does not allow
ServerRefuse(i) ==
    /\ i \in 1..Len(net)
    /\ ~net[i].done
    /\ net[i].kind \in Transitions
    /\ ~Accepts(net[i])
    /\ net' = [net EXCEPT ![i].done = TRUE, ![i].status = "error",
                          ![i].message = ServerMessage]
    /\ event' = Ev("server", net[i].kind, 0)
    /\ UNCHANGED <<initialized, tabVars, timerVars, lastRefresh, now, togVars,
                   toasts, chartVars, sysVars, perfVars, logVars, alertVars,
                   form, srvVars>>

\* the backend answers a mutating call with a failure and changes nothing
ServerReject(i) ==
    /\ i \in 1..Len(net)
    /\ ~net[i].done
    /\ net[i].kind \in Transitions \cup {"start", "stop"}
    /\ net' = [net EXCEPT ![i].done = TRUE, ![i].status = "error",
                          ![i].message = ServerMessage]
    /\ event' = Ev("server", net[i].kind, 0)
    /\ UNCHANGED <<initialized, tabVars, timerVars, lastRefresh, now, togVars,
                   toasts, chartVars, sysVars, perfVars, logVars, alertVars,
                   form, srvVars>>


(***************************************************************************)
(* The page when the script starts: the object literal and the template    *)
(***************************************************************************)
InitPage ==
    /\ initialized = FALSE
    /\ currentTab = "system"
    /\ activePane = {"system"}
    /\ refreshTimer = Null
    /\ liveTimers = {}
    /\ nextTimerId = 1
    /\ autoRefresh = DefaultRefresh
    /\ lastRefresh = Null
    /\ now = 1
    /\ monitoringActive = FALSE
    /\ button = [text |-> StartLabel, class |-> "btn-primary"]
    /\ net = <<>>
    /\ toasts = <<>>
    /\ charts = [c \in ChartSlots |-> Null]
    /\ chartData = [c \in ChartSlots |-> NoChart]
    /\ nextChartId = 1
    /\ metricTables = [t \in {"cpu", "memory", "disk", "network"} |-> <<>>]
    /\ sysInfoView = <<>>
    /\ perfTable = <<>>
    /\ perfCategory = [options |-> <<>>, value |-> ""]
    /\ perfMetric = [options |-> <<>>, index |-> 0]
    /\ logEntries = <<>>
    /\ logVisible = <<>>
    /\ logFilter = DefaultFilter
    /\ alertView = <<>>
    /\ alertCounts = [sev \in Severities |-> 0]
    /\ historyView = <<>>
    /\ form = Form("", "", "warning")
    /\ srvHistory = <<>>
    /\ event = Ev("load", "", 0)

\* The page at rest after init(): the loads of init were answered by a
\* backend without metrics, the user switched the auto-refresh off and went
\* to the tab, whose load was answered (a state the page reaches from
\* InitPage; srvMonitoring and srvAlerts are the backend's state then).
PageAtRest(tab) ==
    /\ initialized = TRUE
    /\ currentTab = tab
    /\ activePane = {tab}
    /\ refreshTimer = Null
    /\ liveTimers = {}
    /\ nextTimerId = 2
    /\ autoRefresh = 0
    /\ lastRefresh = 1
    /\ now = 1
    /\ monitoringActive = srvMonitoring
    /\ button = IF srvMonitoring
                THEN [text |-> StopLabel, class |-> "btn-danger"]
                ELSE [text |-> StartLabel, class |-> "btn-primary"]
    /\ net = <<>>
    /\ toasts = <<>>
    /\ charts = [c \in ChartSlots |->
           CASE c = "cpu" -> 1 [] c = "memory" -> 2 [] c = "disk" -> 3
             [] c = "network" -> 4
             [] c = "logLevels" /\ tab = "logs" -> 5
             [] OTHER -> Null]
    /\ chartData = [c \in ChartSlots |->
           CASE c = "cpu" -> CreateChart(<<>>, <<"CPU Usage">>, <<<<>>>>, "")
             [] c = "memory" -> CreateChart(<<>>, <<"Memory Usage">>, <<<<>>>>, "")
             [] c = "disk" -> CreateChart(<<>>, <<"Disk Usage">>, <<<<>>>>, "")
             [] c = "network" ->
                    CreateChart(<<>>, <<"Received", "Sent">>, <<<<>>, <<>>>>, "")
             [] c = "logLevels" /\ tab = "logs" ->
                    CreateChart(LogLevels, <<"">>, <<LevelCounts>>, "Log Levels")
             [] OTHER -> NoChart]
    /\ nextChartId = IF tab = "logs" THEN 6 ELSE 5
    /\ metricTables = [t \in {"cpu", "memory", "disk", "network"} |-> <<>>]
    /\ sysInfoView = <<>>
    /\ perfTable = <<>>
    /\ perfCategory = [options |-> <<>>, value |-> ""]
    /\ perfMetric = [options |-> <<>>, index |-> 0]
    /\ logEntries = IF tab = "logs" THEN Container ELSE <<>>
    /\ logVisible = IF tab = "logs" THEN [i \in 1..Len(SimulatedLogs) |-> TRUE]
                    ELSE <<>>
    /\ logFilter = DefaultFilter
    /\ alertView = IF tab = "alerts"
                   THEN RenderActiveAlerts(ActiveAlerts(srvAlerts)) ELSE <<>>
    /\ alertCounts = IF tab = "alerts"
                     THEN SeverityCounts(ActiveAlerts(srvAlerts))
                     ELSE [sev \in Severities |-> 0]
    /\ historyView = <<>>
    /\ form = Form("", "", "warning")
    /\ srvHistory = <<>>
    /\ event = IF tab = "alerts" THEN Ev("alertHistoryLoaded", "", 0)
               ELSE Ev("switchTab", tab, 0)

(***************************************************************************)
(* Dashboard State Controller                                              *)
(***************************************************************************)
\* init(): setupEventListeners, setupTabs (switchTab('system')),
\* refreshDashboard, startAutoRefresh
DashboardInit ==
    /\ ~initialized
    /\ initialized' = TRUE
    /\ currentTab' = "system"
    /\ activePane' = {"system"}
    /\ lastRefresh' = now
    /\ net' = net \o LoadTabData("system") \o LoadTabData("system")
                  \o CheckMonitoringStatus
    /\ LoadTabEffect("system")
    /\ SetAutoRefreshEffect(autoRefresh)
    /\ autoRefresh' = autoRefresh
    /\ event' = Ev("init", "", 0)
    /\ UNCHANGED <<now, togVars, toasts, sysVars, perfVars, alertVars, form,
                   srvVars>>

\* a faulty variant: the panes that were active stay active
PanesAfterKeeping(tabName) == activePane \cup {t \in Tabs : t = tabName}

\* pane.id === `tab-${tabName}` ? classList.add('active') : remove('active')
PanesAfter(tabName) == {t \in Tabs : t = tabName}

\* switchTab(tabName), from a click on a tab button
\* a faulty variant: the switch stamps the refresh time, too
SwitchTabStamping(tabName) ==
    /\ initialized
    /\ Room(Len(LoadTabData(tabName)))
    /\ currentTab' = tabName
    /\ activePane' = PanesAfter(tabName)
    /\ net' = net \o LoadTabData(tabName)
    /\ LoadTabEffect(tabName)
    /\ lastRefresh' = now
    /\ event' = Ev("switchTab", tabName, 0)
    /\ UNCHANGED <<initialized, timerVars, now, togVars, toasts,
                   sysVars, perfVars, alertVars, form, srvVars>>

SwitchTab(tabName) ==
    /\ initialized
    /\ Room(Len(LoadTabData(tabName)))
    /\ currentTab' = tabName
    /\ activePane' = PanesAfter(tabName)
    /\ net' = net \o LoadTabData(tabName)
    /\ LoadTabEffect(tabName)
    /\ event' = Ev("switchTab", tabName, 0)
    /\ UNCHANGED <<initialized, timerVars, lastRefresh, now, togVars, toasts,
                   sysVars, perfVars, alertVars, form, srvVars>>

\* setAutoRefresh(seconds), from a change of the auto-refresh select
SetAutoRefresh(seconds) ==
    /\ initialized
    /\ seconds # autoRefresh
    /\ TimerRoom(seconds)
    /\ autoRefresh' = seconds
    /\ SetAutoRefreshEffect(seconds)
    /\ event' = Ev("setAutoRefresh", "", 0)
    /\ UNCHANGED <<initialized, tabVars, lastRefresh, now, togVars, net, toasts,
                   chartVars, sysVars, perfVars, logVars, alertVars, form,
                   srvVars>>

\* refreshDashboard(): stamp, reload the current tab, check the status
RefreshDashboard ==
    /\ Room(Len(RefreshRequests))
    /\ lastRefresh' = now
    /\ net' = net \o RefreshRequests
    /\ LoadTabEffect(currentTab)
    /\ UNCHANGED <<initialized, tabVars, timerVars, now, togVars, toasts,
                   sysVars, perfVars, alertVars, form, srvVars>>

\* a click on the refresh-now button
RefreshClick ==
    /\ initialized
    /\ RefreshDashboard
    /\ event' = Ev("refreshDashboard", currentTab, 0)

\* a faulty variant: the callback reloads the tab and does nothing else
TimerCallbackLoadingOnly ==
    /\ Room(Len(LoadTabData(currentTab)))
    /\ net' = net \o LoadTabData(currentTab)
    /\ LoadTabEffect(currentTab)
    /\ UNCHANGED <<initialized, tabVars, timerVars, lastRefresh, now, togVars,
                   toasts, sysVars, perfVars, alertVars, form, srvVars>>

\* setInterval(() => { this.refreshDashboard(); }, seconds * 1000)
TimerCallback == RefreshDashboard

\* the callback of an armed interval timer
TimerTick(t) ==
    /\ t \in liveTimers
    /\ TimerCallback
    /\ event' = Ev("tick", currentTab, t)

\* time passes
Advance ==
    /\ now < MaxTime
    /\ now' = now + 1
    /\ event' = Ev("advance", "", 0)
    /\ UNCHANGED <<initialized, tabVars, timerVars, lastRefresh, togVars, net,
                   toasts, chartVars, sysVars, perfVars, logVars, alertVars,
                   form, srvVars>>

\* a faulty variant: a notification is removed only when no other is shown
ToastExpireWhenAlone ==
    /\ Len(toasts) = 1
    /\ toasts' = Tail(toasts)
    /\ event' = Ev("toastExpire", "", 0)
    /\ UNCHANGED <<initialized, tabVars, timerVars, lastRefresh, now, togVars,
                   net, chartVars, sysVars, perfVars, logVars, alertVars,
                   form, srvVars>>

\* a notification is removed 3.3 s after it was shown
ToastExpire ==
    /\ toasts # <<>>
    /\ toasts' = Tail(toasts)
    /\ event' = Ev("toastExpire", "", 0)
    /\ UNCHANGED <<initialized, tabVars, timerVars, lastRefresh, now, togVars,
                   net, chartVars, sysVars, perfVars, logVars, alertVars,
                   form, srvVars>>

(***************************************************************************)
(* Monitoring run/stop: toggleMonitoring, checkMonitoringStatus            *)
(***************************************************************************)
\* toggleMonitoring(): the request
ToggleMonitoring ==
    /\ initialized
    /\ Room(1)
    /\ net' = Append(net, Req(IF monitoringActive THEN "stop" ELSE "start", "", FALSE))
    /\ event' = Ev("toggleMonitoring", "", 0)
    /\ UNCHANGED <<initialized, tabVars, timerVars, lastRefresh, now, togVars,
                   toasts, chartVars, sysVars, perfVars, logVars, alertVars,
                   form, srvVars>>

\* a faulty variant: data.status is not looked at
FlagAfterAnswerUnchecked(m, flag) == m.kind = "start"

\* if (data.status === 'success') { this.monitoringActive = ... } else { ... }
FlagAfterAnswer(m, flag) ==
    IF m.status = "success" THEN m.kind = "start" ELSE flag

ButtonAfterAnswer(m, b) ==
    IF m.status = "success"
    THEN (IF m.kind = "start"
          THEN [text |-> StopLabel, class |-> "btn-danger"]
          ELSE [text |-> StartLabel, class |-> "btn-primary"])
    ELSE b

\* the notification of an answered start or stop call
AnswerToast(m) ==
    CASE m.status = "success" /\ m.kind = "start" ->
             Toast("success", "Monitoring started", "")
      [] m.status = "success" /\ m.kind = "stop" ->
             Toast("success", "Monitoring stopped", "")
      [] m.status # "success" /\ m.kind = "start" ->
             Toast("error", "Failed to start monitoring", "")
      [] m.status # "success" /\ m.kind = "stop" ->
             Toast("error", "Failed to stop monitoring", "")

\* .then(data => ...) with data.status === 'success'
ToggleSucceeded(i) ==
    /\ i \in 1..Len(net)
    /\ net[i].kind \in {"start", "stop"}
    /\ net[i].done /\ net[i].status = "success"
    /\ ToastRoom
    /\ monitoringActive' = FlagAfterAnswer(net[i], monitoringActive)
    /\ button' = ButtonAfterAnswer(net[i], button)
    /\ ShowToast(AnswerToast(net[i]))
    /\ net' = RemoveAt(net, i)
    /\ event' = Ev("toggleSucceeded", net[i].kind, 0)
    /\ UNCHANGED <<initialized, tabVars, timerVars, lastRefresh, now, chartVars,
                   sysVars, perfVars, logVars, alertVars, form, srvVars>>

\* .then(data => ...) with any other data.status
ToggleFailed(i) ==
    /\ i \in 1..Len(net)
    /\ net[i].kind \in {"start", "stop"}
    /\ net[i].done /\ net[i].status # "success"
    /\ ToastRoom
    /\ monitoringActive' = FlagAfterAnswer(net[i], monitoringActive)
    /\ button' = ButtonAfterAnswer(net[i], button)
    /\ ShowToast(AnswerToast(net[i]))
    /\ net' = RemoveAt(net, i)
    /\ event' = Ev("toggleFailed", net[i].kind, 0)
    /\ UNCHANGED <<initialized, tabVars, timerVars, lastRefresh, now, chartVars,
                   sysVars, perfVars, logVars, alertVars, form, srvVars>>

\* .catch(error => ...): the call failed in transport or in decoding
ToggleError(i) ==
    /\ i \in 1..Len(net)
    /\ net[i].kind \in {"start", "stop"}
    /\ ToastRoom
    /\ ShowToast(Toast("error",
           IF net[i].kind = "start" THEN "Error starting monitoring"
           ELSE "Error stopping monitoring", ""))
    /\ net' = RemoveAt(net, i)
    /\ event' = Ev("toggleError", net[i].kind, 0)
    /\ UNCHANGED <<initialized, tabVars, timerVars, lastRefresh, now, togVars,
                   chartVars, sysVars, perfVars, logVars, alertVars, form,
                   srvVars>>

\* checkMonitoringStatus: .then(data => ...)
StatusLoaded(i) ==
    /\ i \in 1..Len(net)
    /\ net[i].kind = "status"
    /\ net[i].done
    /\ monitoringActive' = (net[i].status = "active")
    /\ button' = IF net[i].status = "active"
                 THEN [text |-> StopLabel, class |-> "btn-danger"]
                 ELSE button
    /\ net' = RemoveAt(net, i)
    /\ event' = Ev("statusLoaded", net[i].status, 0)
    /\ UNCHANGED <<initialized, tabVars, timerVars, lastRefresh, now, toasts,
                   chartVars, sysVars, perfVars, logVars, alertVars, form,
                   srvVars>>

\* a faulty variant: a failed acknowledge call is only logged, too
PassiveKindsAndAcknowledge ==
    {"status", "metrics", "sysinfo", "performance", "perfhist", "alerts",
     "history", "acknowledge"}

\* the .catch of a passive load: the failure is logged, nothing else happens
PassiveKinds == {"status", "metrics", "sysinfo", "performance", "perfhist",
                 "alerts", "history"}

LoadError(i) ==
    /\ i \in 1..Len(net)
    /\ net[i].kind \in PassiveKinds
    /\ net' = RemoveAt(net, i)
    /\ event' = Ev("loadError", net[i].kind, 0)
    /\ UNCHANGED <<initialized, tabVars, timerVars, lastRefresh, now, togVars,
                   toasts, chartVars, sysVars, perfVars, logVars, alertVars,
                   form, srvVars>>


(***************************************************************************)
(* System tab: loadSystemMetrics, updateSystemInfo                         *)
(***************************************************************************)
\* loadSystemMetrics: .then(data => { updateSystemCharts(data);
\* updateSystemInfo() }), the latter issuing GET /api/monitoring
MetricsLoaded(i, metricsData) ==
    /\ i \in 1..Len(net)
    /\ net[i].kind = "metrics"
    /\ UpdateSystemCharts(metricsData)
    /\ net' = Append(RemoveAt(net, i), Req("sysinfo", "", FALSE))
    /\ event' = [Ev("metricsLoaded", "", IF charts["cpu"] = Null THEN 0 ELSE 1)
                     EXCEPT !.data = metricsData]
    /\ UNCHANGED <<initialized, tabVars, timerVars, lastRefresh, now, togVars,
                   toasts, sysInfoView, perfVars, logVars, alertVars, form,
                   srvVars>>

\* data.system_info of a response: none, or the memory it reports in bytes
\* (the items that are shown as they come are left out)
NoInfo == [present |-> FALSE]

SystemInfo(total, available) ==
    [present |-> TRUE, total |-> total, available |-> available]

\* the items of the system-info container that updateSystemInfo formats
SystemInfoItems(info) ==
    <<[label |-> "Total Memory", text |-> FormatBytes(info.total)],
      [label |-> "Available Memory", text |-> FormatBytes(info.available)]>>

\* updateSystemInfo: .then(data => ...); info is data.system_info, NoInfo
\* when the response has none
SystemInfoLoaded(i, info) ==
    /\ i \in 1..Len(net)
    /\ net[i].kind = "sysinfo"
    /\ sysInfoView' = IF info.present THEN SystemInfoItems(info) ELSE sysInfoView
    /\ net' = RemoveAt(net, i)
    /\ event' = [Ev("systemInfoLoaded", "", 0) EXCEPT
                     !.data = IF info.present THEN <<info>> ELSE <<>>]
    /\ UNCHANGED <<initialized, tabVars, timerVars, lastRefresh, now, togVars,
                   toasts, chartVars, metricTables, perfVars, logVars,
                   alertVars, form, srvVars>>

(***************************************************************************)
(* Performance tab: loadPerformanceMetrics, updatePerformanceChart         *)
(***************************************************************************)
\* loadPerformanceMetrics: .then(data => { updatePerformanceTable(data);
\* populatePerformanceMetricOptions(data); updatePerformanceChart() })
PerformanceLoaded(i, metricsData) ==
    /\ i \in 1..Len(net)
    /\ net[i].kind = "performance"
    /\ perfTable' = PerformanceTable(metricsData)
    /\ perfCategory' = CategorySelectAfter(metricsData)
    /\ perfMetric' = MetricSelectAfter(metricsData)
    /\ net' = RemoveAt(net, i)
              \o UpdatePerformanceChart(CategorySelectAfter(metricsData),
                                        MetricSelectAfter(metricsData))
    /\ event' = [Ev("performanceLoaded", "", 0) EXCEPT !.data = metricsData]
    /\ UNCHANGED <<initialized, tabVars, timerVars, lastRefresh, now, togVars,
                   toasts, chartVars, sysVars, logVars, alertVars, form,
                   srvVars>>

\* the performance chart after renderPerformanceChart(metricName, metricValues)
PerformanceChart(displayName, metricValues) ==
    IF NeedsCreate(charts["performance"])
    THEN CreateChart(Labels(metricValues), <<displayName>>,
                     <<Values(metricValues)>>, displayName)
    ELSE [UpdateChart(chartData["performance"], Labels(metricValues),
                      <<Values(metricValues)>>)
             EXCEPT !.title = displayName, !.datasets[1].label = displayName]

\* updatePerformanceChart: .then(data => renderPerformanceChart(data.name,
\* data.values)); the backend answers with the name it was asked for
MetricHistoryLoaded(i, metricValues) ==
    /\ i \in 1..Len(net)
    /\ net[i].kind = "perfhist"
    /\ charts' = ChartsAfter(<<"performance">>)
    /\ nextChartId' = nextChartId + Cardinality(Created(<<"performance">>))
    /\ chartData' = [chartData EXCEPT !["performance"] =
           PerformanceChart(StripDuration(net[i].arg), metricValues)]
    /\ net' = RemoveAt(net, i)
    /\ event' = [Ev("metricHistoryLoaded", net[i].arg,
                        IF charts["performance"] = Null THEN 0 ELSE 1)
                     EXCEPT !.data = metricValues]
    /\ UNCHANGED <<initialized, tabVars, timerVars, lastRefresh, now, togVars,
                   toasts, sysVars, perfVars, logVars, alertVars, form,
                   srvVars>>

\* a change of the performance-category select to the value c, or of the
\* time-range select (c the current value): loadPerformanceMetrics()
SelectPerformanceCategory(c) ==
    /\ initialized
    /\ "performance" \in activePane
    /\ c = "" \/ Member(perfCategory.options, c)
    /\ Room(1)
    /\ perfCategory' = [perfCategory EXCEPT !.value = c]
    /\ net' = Append(net, Req("performance", c, FALSE))
    /\ event' = Ev("selectPerformanceCategory", c, 0)
    /\ UNCHANGED <<initialized, tabVars, timerVars, lastRefresh, now, togVars,
                   toasts, chartVars, sysVars, perfTable, perfMetric, logVars,
                   alertVars, form, srvVars>>

\* a change of the performance-metric select to the option k:
\* updatePerformanceChart()
SelectPerformanceMetric(k) ==
    /\ initialized
    /\ "performance" \in activePane
    /\ k \in 0..Len(perfMetric.options)
    /\ Room(1)
    /\ perfMetric' = [perfMetric EXCEPT !.index = k]
    /\ net' = net \o UpdatePerformanceChart(perfCategory,
                         [perfMetric EXCEPT !.index = k])
    /\ event' = Ev("selectPerformanceMetric", "", k)
    /\ UNCHANGED <<initialized, tabVars, timerVars, lastRefresh, now, togVars,
                   toasts, chartVars, sysVars, perfTable, perfCategory,
                   logVars, alertVars, form, srvVars>>


(***************************************************************************)
(* Alerts tab: loadAlerts and the lifecycle transitions                    *)
(***************************************************************************)
\* a faulty variant: the handler ends after updateAlertStatus
AlertsLoadedCountersOnly(i) ==
    /\ i \in 1..Len(net)
    /\ net[i].kind = "alerts"
    /\ net[i].done
    /\ alertCounts' = SeverityCounts(net[i].alerts)
    /\ net' = RemoveAt(net, i)
    /\ event' = Ev("alertsLoaded", "", 0)
    /\ UNCHANGED <<initialized, tabVars, timerVars, lastRefresh, now, togVars,
                   toasts, chartVars, sysVars, perfVars, logVars, alertView,
                   historyView, form, srvVars>>

\* loadAlerts, first fetch: .then(data => { updateAlertStatus(data);
\* renderActiveAlerts(data.alerts) })
AlertsLoaded(i) ==
    /\ i \in 1..Len(net)
    /\ net[i].kind = "alerts"
    /\ net[i].done
    /\ alertCounts' = SeverityCounts(net[i].alerts)
    /\ alertView' = RenderActiveAlerts(net[i].alerts)
    /\ net' = RemoveAt(net, i)
    /\ event' = [Ev("alertsLoaded", "", 0)
                     EXCEPT !.data = SortedCopy(net[i].alerts).received]
    /\ UNCHANGED <<initialized, tabVars, timerVars, lastRefresh, now, togVars,
                   toasts, chartVars, sysVars, perfVars, logVars, historyView,
                   form, srvVars>>

\* loadAlerts, second fetch: .then(data => renderAlertHistory(data.history))
AlertHistoryLoaded(i) ==
    /\ i \in 1..Len(net)
    /\ net[i].kind = "history"
    /\ net[i].done
    /\ historyView' = net[i].history
    /\ net' = RemoveAt(net, i)
    /\ event' = Ev("alertHistoryLoaded", "", 0)
    /\ UNCHANGED <<initialized, tabVars, timerVars, lastRefresh, now, togVars,
                   toasts, chartVars, sysVars, perfVars, logVars, alertView,
                   alertCounts, form, srvVars>>

\* a click on the Acknowledge button of the k-th rendered alert
ClickAcknowledge(k) ==
    /\ initialized
    /\ "alerts" \in activePane
    /\ k \in 1..Len(alertView)
    /\ OffersAcknowledge(alertView[k])
    /\ Room(1)
    /\ net' = Append(net, ReqAcknowledge(alertView[k].name))
    /\ event' = Ev("acknowledgeAlert", alertView[k].name, k)
    /\ UNCHANGED <<initialized, tabVars, timerVars, lastRefresh, now, togVars,
                   toasts, chartVars, sysVars, perfVars, logVars, alertVars,
                   form, srvVars>>

\* a click on the Resolve button of the k-th rendered alert
ClickResolve(k) ==
    /\ initialized
    /\ "alerts" \in activePane
    /\ k \in 1..Len(alertView)
    /\ Room(1)
    /\ net' = Append(net, ReqResolve(alertView[k].name))
    /\ event' = Ev("resolveAlert", alertView[k].name, k)
    /\ UNCHANGED <<initialized, tabVars, timerVars, lastRefresh, now, togVars,
                   toasts, chartVars, sysVars, perfVars, logVars, alertVars,
                   form, srvVars>>

\* the same click made while the acknowledge call of that alert is still in
\* flight: the user has not waited for its answer, nor for the reload
ClickResolveAtOnce(k) ==
    /\ k \in 1..Len(alertView)
    /\ \E i \in 1..Len(net) :
           net[i].kind = "acknowledge" /\ net[i].arg = alertView[k].name
    /\ ClickResolve(k)

\* a click on the Silence / Unsilence button of the k-th rendered alert:
\* silenceAlert(alertName, !isSilenced)
ClickSilence(k) ==
    /\ initialized
    /\ "alerts" \in activePane
    /\ k \in 1..Len(alertView)
    /\ Room(1)
    /\ net' = Append(net, ReqSilence(alertView[k].name, ~alertView[k].silenced))
    /\ event' = Ev("silenceAlert", alertView[k].name, k)
    /\ UNCHANGED <<initialized, tabVars, timerVars, lastRefresh, now, togVars,
                   toasts, chartVars, sysVars, perfVars, logVars, alertVars,
                   form, srvVars>>

\* the user fills in the create-alert form
EditAlertForm(f) ==
    /\ initialized
    /\ "alerts" \in activePane
    /\ f # form
    /\ form' = f
    /\ event' = Ev("editAlertForm", f.name, 0)
    /\ UNCHANGED <<initialized, tabVars, timerVars, lastRefresh, now, togVars,
                   net, toasts, chartVars, sysVars, perfVars, logVars,
                   alertVars, srvVars>>

\* createAlert() with a field missing: one notification, no request
CreateAlertRejected ==
    /\ initialized
    /\ "alerts" \in activePane
    /\ FormMissing(form)
    /\ ToastRoom
    /\ ShowToast(Toast("error", "Alert name and description are required", ""))
    /\ event' = Ev("createAlert", form.name, 0)
    /\ UNCHANGED <<initialized, tabVars, timerVars, lastRefresh, now, togVars,
                   net, chartVars, sysVars, perfVars, logVars, alertVars,
                   form, srvVars>>

\* createAlert() with both fields present: the request
CreateAlertSent ==
    /\ initialized
    /\ "alerts" \in activePane
    /\ ~FormMissing(form)
    /\ Room(1)
    /\ net' = Append(net, ReqCreate(form))
    /\ event' = Ev("createAlert", form.name, 1)
    /\ UNCHANGED <<initialized, tabVars, timerVars, lastRefresh, now, togVars,
                   toasts, chartVars, sysVars, perfVars, logVars, alertVars,
                   form, srvVars>>

\* the form after a handled create: name and description are reset
FormAfter(m) ==
    IF m.kind = "create" THEN [form EXCEPT !.name = "", !.description = ""]
    ELSE form

\* a transition answered with status "success": notification and reload
TransitionSucceeded(i) ==
    /\ i \in 1..Len(net)
    /\ net[i].kind \in Transitions
    /\ net[i].done /\ net[i].status = "success"
    /\ ToastRoom
    /\ Room(Len(ReloadAfterTransition) - 1)
    /\ ShowToast(SuccessToast(net[i]))
    /\ form' = FormAfter(net[i])
    /\ net' = RemoveAt(net, i) \o ReloadAfterTransition
    /\ event' = Ev("transitionSucceeded", net[i].kind, 0)
    /\ UNCHANGED <<initialized, tabVars, timerVars, lastRefresh, now, togVars,
                   chartVars, sysVars, perfVars, logVars, alertVars, srvVars>>

\* a transition answered with another status: notification only
TransitionFailed(i) ==
    /\ i \in 1..Len(net)
    /\ net[i].kind \in Transitions
    /\ net[i].done /\ net[i].status # "success"
    /\ ToastRoom
    /\ ShowToast(FailedToast(net[i]))
    /\ net' = RemoveAt(net, i)
    /\ event' = Ev("transitionFailed", net[i].kind, 0)
    /\ UNCHANGED <<initialized, tabVars, timerVars, lastRefresh, now, togVars,
                   chartVars, sysVars, perfVars, logVars, alertVars, form,
                   srvVars>>

\* a transition that failed in transport or in decoding: notification only
TransitionError(i) ==
    /\ i \in 1..Len(net)
    /\ net[i].kind \in Transitions
    /\ ToastRoom
    /\ ShowToast(ErrorToast(net[i]))
    /\ net' = RemoveAt(net, i)
    /\ event' = Ev("transitionError", net[i].kind, 0)
    /\ UNCHANGED <<initialized, tabVars, timerVars, lastRefresh, now, togVars,
                   chartVars, sysVars, perfVars, logVars, alertVars, form,
                   srvVars>>

(***************************************************************************)
(* Specification of the scheduler and the controller.  The user changes    *)
(* the interval, refreshes and visits the alerts and the logs tab; the     *)
(* backend holds no metrics and no alerts, and every load is answered.     *)
(***************************************************************************)
\* the options of the auto-refresh select the user picks
RefreshInputs == {0, 10, 30}

InitSched ==
    /\ InitPage
    /\ srvMonitoring = FALSE
    /\ srvAlerts = <<>>

NextSched ==
    \/ DashboardInit
    \/ \E t \in {"alerts", "logs"} : SwitchTab(t)
    \/ \E seconds \in RefreshInputs : SetAutoRefresh(seconds)
    \/ RefreshClick
    \/ \E t \in 1..MaxTimerId : TimerTick(t)
    \/ Advance
    \/ \E i \in 1..MaxInFlight : ServerRead(i)
    \/ \E i \in 1..MaxInFlight : StatusLoaded(i)
    \/ \E i \in 1..MaxInFlight : MetricsLoaded(i, <<>>)
    \/ \E i \in 1..MaxInFlight : SystemInfoLoaded(i, NoInfo)
    \/ \E i \in 1..MaxInFlight : AlertsLoaded(i)
    \/ \E i \in 1..MaxInFlight : AlertHistoryLoaded(i)

SpecSched == InitSched /\ [][NextSched]_vars


\* the last n calls in flight
LastIssued(n) == SubSeq(net, Len(net) - n + 1, Len(net))

\* C1: at most one periodic refresh timer is live, namely the one whose
\* handle the dashboard holds: every setAutoRefresh call (the one of init
\* included) has cancelled the timer armed before, and the timer whose
\* callback ran is the one armed last, never a cancelled one.
C1_SingleLiveTimer ==
    /\ Cardinality(liveTimers) <= 1
    /\ liveTimers = (IF refreshTimer = Null THEN {} ELSE {refreshTimer})
    /\ event.op = "tick" => event.n = refreshTimer

\* a tick of the timer armed by a second setAutoRefresh call, after the
\* timer of init was cancelled
C1_Witness ==
    /\ event.op = "tick"
    /\ event.n = 2
    /\ refreshTimer = 2
    /\ nextTimerId = 3

\* C2: once init has run, a timer is armed if and only if the interval set
\* last is positive; with the interval 0 no timer is left to fire, so a
\* refresh is scheduled only under a positive interval; and a manual refresh
\* stamps lastRefresh and reloads the current tab whatever the interval is.
C2_ArmedIffPositive ==
    initialized =>
        /\ (refreshTimer # Null) <=> (autoRefresh > 0)
        /\ autoRefresh = 0 => liveTimers = {}
        /\ event.op = "tick" => autoRefresh > 0
        /\ event.op = "refreshDashboard" =>
               /\ lastRefresh = now
               /\ Len(net) >= Len(RefreshRequests)
               /\ LastIssued(Len(RefreshRequests)) = RefreshRequests
               /\ currentTab = "logs" =>
                      logVisible = [i \in 1..Len(SimulatedLogs) |-> TRUE]

\* a manual refresh made at a later instant, after the interval was changed
\* from 10 to 0
C2_Witness ==
    /\ initialized
    /\ autoRefresh = 0
    /\ refreshTimer = Null
    /\ event.op = "refreshDashboard"
    /\ lastRefresh = 2
    /\ currentTab = "alerts"

(***************************************************************************)
(* Specification of the monitoring toggle.  The page is at rest on the     *)
(* logs tab; the user toggles and refreshes; the backend may refuse, and   *)
(* calls may fail.                                                         *)
(***************************************************************************)
InitToggle ==
    /\ srvMonitoring \in BOOLEAN
    /\ srvAlerts = <<>>
    /\ PageAtRest("logs")

NextToggle ==
    \/ RefreshClick
    \/ ToggleMonitoring
    \/ ToastExpire
    \/ \E i \in 1..MaxInFlight : ServerRead(i)
    \/ \E i \in 1..MaxInFlight : ServerControl(i)
    \/ \E i \in 1..MaxInFlight : ServerReject(i)
    \/ \E i \in 1..MaxInFlight : ToggleSucceeded(i)
    \/ \E i \in 1..MaxInFlight : ToggleFailed(i)
    \/ \E i \in 1..MaxInFlight : ToggleError(i)
    \/ \E i \in 1..MaxInFlight : StatusLoaded(i)
    \/ \E i \in 1..MaxInFlight : LoadError(i)

SpecToggle == InitToggle /\ [][NextToggle]_vars

\* C10: the handler of a start or stop call that was answered with a status
\* other than "success", or that failed in transport, leaves monitoringActive
\* and the toggle button as they were and shows exactly one notification, of
\* type error.
C10_FailureLeavesState ==
    [][event'.op \in {"toggleFailed", "toggleError"} =>
          /\ monitoringActive' = monitoringActive
          /\ button' = button
          /\ Len(toasts') = Len(toasts) + 1
          /\ SubSeq(toasts', 1, Len(toasts)) = toasts
          /\ toasts'[Len(toasts')].type = "error"]_vars

\* a stop call was refused while monitoring was active
C10_Witness ==
    /\ event.op = "toggleFailed"
    /\ event.arg = "stop"
    /\ monitoringActive
    /\ button.text = StopLabel


(***************************************************************************)
(* Specification of the charts.  The user moves between the system, the    *)
(* performance and the logs tab and refreshes; the backend answers the     *)
(* metric calls with one of a few responses.                               *)
(***************************************************************************)
\* responses of GET /api/monitoring/metrics?category=system
CpuTwoSamples ==
    <<Metric("system.cpu_percent", <<<<1000, 10>>, <<2000, 55>>>>)>>

AllSeries ==
    <<Metric("system.cpu_percent", <<<<3000, 70>>>>),
      Metric("system.memory_percent", <<<<3000, 40>>>>),
      Metric("system.disk_root_percent", <<<<3000, 20>>>>),
      Metric("system.network_total_bytes_recv_per_sec", <<<<3000, 2048>>>>)>>

NoCpuSeries == <<Metric("system.memory_percent", <<<<4000, 45>>>>)>>

MetricsResponses == {CpuTwoSamples, AllSeries, NoCpuSeries}

\* responses of GET /api/monitoring/performance
PerfResponses ==
    {<<>>,
     <<PerfCategory("api", <<[name |-> "request_duration", stats |-> <<>>]>>)>>}

\* the values of a response of GET /api/monitoring/metrics/{name}
HistoryResponses == {<<>>, <<<<1000, 3>>, <<2000, 4>>>>}

NextCharts ==
    \/ DashboardInit
    \/ \E t \in {"system", "performance", "logs"} : SwitchTab(t)
    \/ RefreshClick
    \/ \E k \in 0..1 : SelectPerformanceMetric(k)
    \/ \E i \in 1..MaxInFlight : ServerRead(i)
    \/ \E i \in 1..MaxInFlight : StatusLoaded(i)
    \/ \E i \in 1..MaxInFlight : \E r \in MetricsResponses : MetricsLoaded(i, r)
    \/ \E i \in 1..MaxInFlight : SystemInfoLoaded(i, NoInfo)
    \/ \E i \in 1..MaxInFlight : \E r \in PerfResponses : PerformanceLoaded(i, r)
    \/ \E i \in 1..MaxInFlight : \E r \in HistoryResponses : MetricHistoryLoaded(i, r)

SpecCharts == InitSched /\ [][NextCharts]_vars

\* C3: a slot whose handle is set keeps that handle in every step; a handle
\* is set only by the render that finds the slot empty, and it is a new
\* chart; a slot that was rendered has its handle.
C3_HandleIdentity ==
    [][\A slot \in ChartSlots :
          /\ charts[slot] # Null => charts'[slot] = charts[slot]
          /\ charts[slot] = Null /\ charts'[slot] # Null =>
                 /\ charts'[slot] >= nextChartId
                 /\ \A other \in ChartSlots \ {slot} :
                        charts'[other] # charts'[slot]
          /\ chartData'[slot] # NoChart => charts'[slot] # Null]_vars

\* the second render of the system charts, with another response, and a
\* render of the performance chart: the handles are those created first
C3_Witness ==
    /\ event.op = "metricsLoaded"
    /\ event.n = 1
    /\ event.data = AllSeries
    /\ charts["cpu"] = 1
    /\ charts["performance"] = 5
    /\ chartData["performance"].labels # <<>>

\* C4: after a system-metrics response is handled, the labels of the CPU
\* chart are the clock times of the samples of system.cpu_percent of that
\* response and the data of its single dataset are their values, sample by
\* sample in the response's order; none when the response has no such series.
C4_CpuSeriesReplaced ==
    event.op = "metricsLoaded" =>
        LET series == Lookup(event.data, "system.cpu_percent")
            chart == chartData["cpu"]
        IN  /\ Len(chart.labels) = Len(series)
            /\ Len(chart.datasets) = 1
            /\ Len(chart.datasets[1].data) = Len(series)
            /\ \A k \in 1..Len(series) :
                   /\ chart.labels[k] = FormatTime(series[k][1])
                   /\ chart.datasets[1].data[k] = series[k][2]
            /\ event.data = CpuTwoSamples =>
                   chart.datasets[1].data = <<10, 55>>
            /\ event.data = NoCpuSeries => chart.labels = <<>>

\* the response with the two samples updates a chart an earlier response
\* created
C4_Witness ==
    /\ event.op = "metricsLoaded"
    /\ event.n = 1
    /\ event.data = CpuTwoSamples
    /\ chartData["cpu"].datasets[1].data = <<10, 55>>
    /\ chartData["memory"].labels = <<>>

(***************************************************************************)
(* Specification of the alert lifecycle.  The page is at rest on the       *)
(* alerts tab, showing the one active alert the backend holds; the user    *)
(* works on the alert; the backend refuses what its state machine         *)
(* forbids, and a transition call may fail in transport.                   *)
(***************************************************************************)
InitialAlerts == {<<Alert("a1", "warning", "active", FALSE)>>}

InitAlerts ==
    /\ srvMonitoring = FALSE
    /\ srvAlerts \in InitialAlerts
    /\ PageAtRest("alerts")

NextAlerts ==
    \/ \E k \in 1..MaxAlerts : ClickAcknowledge(k)
    \/ \E k \in 1..MaxAlerts : ClickResolve(k)
    \/ \E k \in 1..MaxAlerts : ClickSilence(k)
    \/ ToastExpire
    \/ \E i \in 1..MaxInFlight : ServerRead(i)
    \/ \E i \in 1..MaxInFlight : ServerTransition(i)
    \/ \E i \in 1..MaxInFlight : ServerRefuse(i)
    \/ \E i \in 1..MaxInFlight : AlertsLoaded(i)
    \/ \E i \in 1..MaxInFlight : AlertHistoryLoaded(i)
    \/ \E i \in 1..MaxInFlight : TransitionSucceeded(i)
    \/ \E i \in 1..MaxInFlight : TransitionFailed(i)
    \/ \E i \in 1..MaxInFlight : TransitionError(i)

SpecAlerts == InitAlerts /\ [][NextAlerts]_vars

\* C5: the handler of a transition answered with status "success" issues
\* exactly the two calls of one reload, active alerts and then history, and
\* the handler of a transition answered with a failure, or failed in
\* transport, issues no call; neither touches the alert view, the counters
\* or the history view, which change only when a reload's response is
\* rendered.
C5_ReloadAfterSuccess ==
    [][/\ event'.op = "transitionSucceeded" =>
              /\ \E i \in 1..Len(net) :
                     /\ net[i].kind \in Transitions
                     /\ net[i].status = "success"
                     /\ SubSeq(net', 1, Len(net) - 1) = RemoveAt(net, i)
              /\ Len(net') = Len(net) + 1
              /\ net'[Len(net') - 1].kind = "alerts"
              /\ net'[Len(net')].kind = "history"
              /\ ~net'[Len(net') - 1].done /\ ~net'[Len(net')].done
       /\ event'.op \in {"transitionFailed", "transitionError"} =>
              \E i \in 1..Len(net) :
                  /\ net[i].kind \in Transitions
                  /\ event'.op = "transitionFailed" =>
                         net[i].done /\ net[i].status # "success"
                  /\ net' = RemoveAt(net, i)
       /\ <<alertView, alertCounts>>' # <<alertView, alertCounts>> =>
              event'.op = "alertsLoaded"
       /\ historyView' # historyView => event'.op = "alertHistoryLoaded"]_vars

\* the handler of a successful silence has started the reload, and the view
\* still shows the alert as the last response rendered it
C5_Witness ==
    /\ event.op = "transitionSucceeded"
    /\ event.arg = "silence"
    /\ Len(net) >= 2
    /\ net[Len(net) - 1].kind = "alerts"
    /\ net[Len(net)].kind = "history"
    /\ srvAlerts[1].silenced
    /\ Len(alertView) = 1
    /\ ~alertView[1].silenced

\* C7: a resolve, silence or unsilence call is never issued for an alert
\* the backend holds as resolved.
C7_NoCallForResolved ==
    event.op \in {"resolveAlert", "silenceAlert"} =>
        ~HasAlert(event.arg, {"resolved"})


(***************************************************************************)
(* Specification of the create-alert form and the acknowledge action.  The *)
(* page is at rest on the alerts tab, showing the one acknowledged alert   *)
(* the backend holds; the user edits and submits the form, and             *)
(* acknowledges what the view offers.                                      *)
(***************************************************************************)
\* what the user types into the form
FormInputs ==
    {Form(n, d, "critical") : n \in {"", "a2"}, d \in {"", "text"}}

InitCreate ==
    /\ srvMonitoring = FALSE
    /\ srvAlerts = <<Alert("a1", "warning", "acknowledged", FALSE)>>
    /\ PageAtRest("alerts")

NextCreate ==
    \/ \E f \in FormInputs : EditAlertForm(f)
    \/ CreateAlertRejected
    \/ CreateAlertSent
    \/ \E k \in 1..MaxAlerts : ClickAcknowledge(k)
    \/ ToastExpire
    \/ \E i \in 1..MaxInFlight : ServerRead(i)
    \/ \E i \in 1..MaxInFlight : ServerTransition(i)
    \/ \E i \in 1..MaxInFlight : ServerRefuse(i)
    \/ \E i \in 1..MaxInFlight : AlertsLoaded(i)
    \/ \E i \in 1..MaxInFlight : AlertHistoryLoaded(i)
    \/ \E i \in 1..MaxInFlight : TransitionSucceeded(i)
    \/ \E i \in 1..MaxInFlight : TransitionFailed(i)

SpecCreate == InitCreate /\ [][NextCreate]_vars

\* C8: the acknowledge call just issued is for the alert of the rendered
\* view whose button was used, that alert is rendered with status active,
\* and the call carries its name.
C8_AcknowledgeOnlyActive ==
    event.op = "acknowledgeAlert" =>
        /\ event.n \in 1..Len(alertView)
        /\ alertView[event.n].status = "active"
        /\ alertView[event.n].name = event.arg
        /\ net # <<>>
        /\ net[Len(net)].kind = "acknowledge"
        /\ net[Len(net)].arg = alertView[event.n].name

\* the view shows an active and an acknowledged alert, and the acknowledge
\* call went out for the active one
C8_Witness ==
    /\ event.op = "acknowledgeAlert"
    /\ event.arg = "a2"
    /\ Len(alertView) = 2
    /\ alertView[1].name = "a2"
    /\ alertView[2].name = "a1"
    /\ alertView[2].status = "acknowledged"
    /\ net[Len(net)].arg = "a2"

\* C9: createAlert() with the name or the description empty appends one
\* error notification, issues no call and changes nothing else; with both
\* present it issues exactly one create call, for the name of the form.
C9_CreateValidated ==
    [][event'.op = "createAlert" =>
          IF form.name = "" \/ form.description = ""
          THEN /\ Len(toasts') = Len(toasts) + 1
               /\ SubSeq(toasts', 1, Len(toasts)) = toasts
               /\ toasts'[Len(toasts')].type = "error"
               /\ net' = net
               /\ UNCHANGED <<initialized, tabVars, timerVars, lastRefresh, now,
                              togVars, chartVars, sysVars, perfVars, logVisible,
                              alertVars, form, srvVars>>
          ELSE /\ Len(net') = Len(net) + 1
               /\ SubSeq(net', 1, Len(net)) = net
               /\ net'[Len(net')].kind = "create"
               /\ net'[Len(net')].arg = form.name
               /\ net'[Len(net')].cat = form.severity
               /\ toasts' = toasts]_vars

\* createAlert() was called with a name and without a description
C9_Witness ==
    /\ event.op = "createAlert"
    /\ event.n = 0
    /\ form.name = "a2"
    /\ form.description = ""
    /\ Len(toasts) = 1
    /\ toasts[1].type = "error"
    /\ net = <<>>

(***************************************************************************)
(* Specification of acknowledge and resolve over a reliable network: every *)
(* call is answered, the backend refuses only what its state machine       *)
(* forbids, and responses arrive in any order.                             *)
(***************************************************************************)
NextRace ==
    \/ \E k \in 1..MaxAlerts : ClickAcknowledge(k)
    \/ \E k \in 1..MaxAlerts : ClickResolveAtOnce(k)
    \/ ToastExpire
    \/ \E i \in 1..MaxInFlight : ServerRead(i)
    \/ \E i \in 1..MaxInFlight : ServerTransition(i)
    \/ \E i \in 1..MaxInFlight : ServerRefuse(i)
    \/ \E i \in 1..MaxInFlight : AlertsLoaded(i)
    \/ \E i \in 1..MaxInFlight : AlertHistoryLoaded(i)
    \/ \E i \in 1..MaxInFlight : TransitionSucceeded(i)
    \/ \E i \in 1..MaxInFlight : TransitionFailed(i)

SpecRace == InitAlerts /\ [][NextRace]_vars

\* C6: once the backend has acknowledged and then resolved the alert and no
\* response is outstanding, the view shows no alert of that name as active
\* or acknowledged, and the history view shows the two entries in order.
C6_AckThenResolveSettles ==
    (/\ net = <<>>
     /\ srvHistory = <<HistoryEntry("a1", "acknowledged"),
                       HistoryEntry("a1", "resolved")>>) =>
        /\ \A k \in 1..Len(alertView) :
               alertView[k].name = "a1" =>
                   alertView[k].status \notin {"active", "acknowledged"}
        /\ historyView = srvHistory

\* C11: toggleMonitoring() issues exactly one call, the stop call when
\* monitoringActive is true and the start call when it is false; and the
\* handler of a start or stop call answered with status "success" negates
\* monitoringActive.
C11_ToggleFlips ==
    [][/\ event'.op = "toggleMonitoring" =>
              /\ Len(net') = Len(net) + 1
              /\ SubSeq(net', 1, Len(net)) = net
              /\ net'[Len(net')].kind =
                     (IF monitoringActive THEN "stop" ELSE "start")
       /\ event'.op = "toggleSucceeded" =>
              monitoringActive' = ~monitoringActive]_vars

(***************************************************************************)
(* Specification of the tabs.  The user clicks the four tab buttons; the   *)
(* backend holds no metrics and no alerts, and every load is answered.     *)
(***************************************************************************)
NextTabs ==
    \/ DashboardInit
    \/ \E t \in Tabs : SwitchTab(t)
    \/ \E i \in 1..MaxInFlight : ServerRead(i)
    \/ \E i \in 1..MaxInFlight : StatusLoaded(i)
    \/ \E i \in 1..MaxInFlight : MetricsLoaded(i, <<>>)
    \/ \E i \in 1..MaxInFlight : SystemInfoLoaded(i, NoInfo)
    \/ \E i \in 1..MaxInFlight : PerformanceLoaded(i, <<>>)
    \/ \E i \in 1..MaxInFlight : AlertsLoaded(i)
    \/ \E i \in 1..MaxInFlight : AlertHistoryLoaded(i)

SpecTabs == InitSched /\ [][NextTabs]_vars

\* a tab name no tab button carries
OtherTab == "settings"

\* the same, with switchTab also called with a name outside the four tabs
NextTabCall ==
    \/ NextTabs
    \/ SwitchTab(OtherTab)

SpecTabCall == InitSched /\ [][NextTabCall]_vars

\* the kinds of the calls a step has issued
Issued == [k \in 1..(Len(net') - Len(net)) |-> net'[Len(net) + k].kind]

C13_OneActivePane ==
    /\ currentTab \in {"system", "performance", "alerts", "logs"}
    /\ activePane = {currentTab}

\* the user has left the system tab for the alerts tab
C13_Witness ==
    /\ event.op = "switchTab"
    /\ event.arg = "alerts"
    /\ currentTab = "alerts"
    /\ activePane = {"alerts"}

\* C14: switchTab(t) with t one of the four tabs sets currentTab to t and
\* issues the calls of the load of t and no other: system metrics for
\* system, performance statistics for performance, active alerts and then
\* alert history for alerts, and for logs no call but the log buffer
\* rendered anew; the calls in flight stay in flight.
C14_SwitchLoadsOwnTab ==
    [][event'.op = "switchTab"
           /\ event'.arg \in {"system", "performance", "alerts", "logs"} =>
          /\ currentTab' = event'.arg
          /\ Len(net') >= Len(net)
          /\ SubSeq(net', 1, Len(net)) = net
          /\ Issued = CASE event'.arg = "system" -> <<"metrics">>
                        [] event'.arg = "performance" -> <<"performance">>
                        [] event'.arg = "alerts" -> <<"alerts", "history">>
                        [] event'.arg = "logs" -> <<>>
          /\ \A k \in (Len(net) + 1)..Len(net') : ~net'[k].done
          /\ event'.arg = "logs" =>
                 /\ logVisible' = [k \in 1..Len(SimulatedLogs) |-> TRUE]
                 /\ charts'["logLevels"] # Null
          /\ event'.arg # "logs" => UNCHANGED <<logVisible, chartVars>>]_vars

\* the performance tab was opened while a call of the tab left was in flight
C14_Witness ==
    /\ event.op = "switchTab"
    /\ event.arg = "performance"
    /\ currentTab = "performance"
    /\ Len(net) >= 2
    /\ net[Len(net)].kind = "performance"
    /\ net[1].kind = "metrics"

\* the kinds of the calls of the load of a tab
TabKinds(tabName) ==
    CASE tabName = "system" -> <<"metrics">>
      [] tabName = "performance" -> <<"performance">>
      [] tabName = "alerts" -> <<"alerts", "history">>
      [] OTHER -> <<>>

\* C15: every refreshDashboard call, manual or scheduled, sets lastRefresh
\* to the instant of the call and issues the calls of the load of the tab
\* current at the call, followed by one status call; and no step decreases
\* lastRefresh.
C15_RefreshStampsAndLoads ==
    [][/\ event'.op \in {"refreshDashboard", "tick"} =>
              /\ lastRefresh' = now
              /\ SubSeq(net', 1, Len(net)) = net
              /\ Issued = TabKinds(currentTab) \o <<"status">>
              /\ currentTab = "logs" =>
                     logVisible' = [k \in 1..Len(SimulatedLogs) |-> TRUE]
       /\ lastRefresh' >= lastRefresh]_vars

\* a manual refresh on the logs tab at a later instant
C15_Witness ==
    /\ event.op = "refreshDashboard"
    /\ currentTab = "logs"
    /\ lastRefresh = 2
    /\ net # <<>>
    /\ net[Len(net)].kind = "status"
    /\ ~net[Len(net)].done

\* C16: a step of the timer callback is a step of refreshDashboard: it sets
\* lastRefresh to the instant of the tick, issues the calls of the load of
\* the tab current at the tick and one status call, and leaves everything
\* else as a manual refresh does.
C16_TickIsRefresh ==
    [][event'.op = "tick" =>
          /\ RefreshDashboard
          /\ lastRefresh' = now
          /\ Issued = TabKinds(event'.arg) \o <<"status">>
          /\ event'.arg = currentTab]_vars

\* the timer armed by init on the system tab ticks on the alerts tab, at a
\* later instant
C16_Witness ==
    /\ event.op = "tick"
    /\ event.n = 1
    /\ currentTab = "alerts"
    /\ lastRefresh = 2
    /\ Len(net) = 3
    /\ net[1].kind = "alerts"
    /\ net[2].kind = "history"
    /\ net[3].kind = "status"

(***************************************************************************)
(* Overlapping loads: the page at rest on the alerts tab with one active   *)
(* alert; the user moves between the system, performance and alerts tabs,  *)
(* picks performance metrics and silences the alert once while earlier     *)
(* loads are still in flight, and the responses arrive in any order.       *)
(***************************************************************************)
\* a response of GET /api/monitoring/performance with two metrics
TwoMetrics ==
    <<PerfCategory("api", <<[name |-> "request_duration", stats |-> <<>>],
                            [name |-> "task_duration", stats |-> <<>>]>>)>>

NextOverlap ==
    \/ \E t \in {"system", "performance", "alerts"} : SwitchTab(t)
    \/ \E k \in 1..2 : SelectPerformanceMetric(k)
    \/ \E k \in 1..MaxAlerts : ClickSilence(k)
    \/ \E i \in 1..MaxInFlight : ServerRead(i)
    \/ \E i \in 1..MaxInFlight : ServerTransition(i)
    \/ \E i \in 1..MaxInFlight : TransitionSucceeded(i)
    \/ \E i \in 1..MaxInFlight : \E r \in {CpuTwoSamples, NoCpuSeries} :
           MetricsLoaded(i, r)
    \/ \E i \in 1..MaxInFlight : SystemInfoLoaded(i, NoInfo)
    \/ \E i \in 1..MaxInFlight : PerformanceLoaded(i, TwoMetrics)
    \/ \E i \in 1..MaxInFlight : \E r \in HistoryResponses :
           MetricHistoryLoaded(i, r)
    \/ \E i \in 1..MaxInFlight : AlertsLoaded(i)
    \/ \E i \in 1..MaxInFlight : AlertHistoryLoaded(i)

SpecOverlap == InitAlerts /\ [][NextOverlap]_vars

\* C17: the handler of a response to a system-metrics, active-alerts or
\* metric-history call takes exactly that one call out of flight and leaves
\* every other call, issued earlier or later, in flight and in order; and
\* it puts the data of its own response into the view, whatever was shown.
C17_OverlappingLoadsApplied ==
    [][event'.op \in {"metricsLoaded", "alertsLoaded", "metricHistoryLoaded"} =>
          \E i \in 1..Len(net) :
              /\ \A j \in 1..(i - 1) : net'[j] = net[j]
              /\ \A j \in (i + 1)..Len(net) : net'[j - 1] = net[j]
              /\ Len(net') = Len(net) - 1
                             + (IF event'.op = "metricsLoaded" THEN 1 ELSE 0)
              /\ event'.op = "metricsLoaded" =>
                     /\ net[i].kind = "metrics"
                     /\ net'[Len(net')].kind = "sysinfo"
                     /\ chartData'["cpu"].datasets[1].data =
                            Values(Lookup(event'.data, "system.cpu_percent"))
                     /\ chartData'["memory"].datasets[1].data =
                            Values(Lookup(event'.data, "system.memory_percent"))
              /\ event'.op = "alertsLoaded" =>
                     /\ net[i].kind = "alerts"
                     /\ alertView' = RenderActiveAlerts(net[i].alerts)
                     /\ alertCounts' = SeverityCounts(net[i].alerts)
              /\ event'.op = "metricHistoryLoaded" =>
                     /\ net[i].kind = "perfhist"
                     /\ net[i].arg = event'.arg
                     /\ chartData'["performance"].title = StripDuration(net[i].arg)
                     /\ chartData'["performance"].labels = Labels(event'.data)
                     /\ chartData'["performance"].datasets[1].data =
                            Values(event'.data)]_vars

\* the select is at the second metric, whose call was issued later and is
\* answered, and the chart shows the first metric, whose response was
\* handled last
C17_Witness ==
    /\ event.op = "metricHistoryLoaded"
    /\ event.arg = "request_duration"
    /\ perfMetric.index = 2
    /\ MetricSelectValue(perfMetric) = "task_duration"
    /\ chartData["performance"].title = "request"
    /\ net = <<>>

(***************************************************************************)
(* Failures: the page at rest on the alerts tab with one active alert; the *)
(* user moves between the tabs, refreshes, acknowledges the alert and      *)
(* toggles the monitoring; the backend rejects the mutating calls, and any *)
(* call may fail in transport.                                             *)
(***************************************************************************)
NextFailures ==
    \/ \E t \in {"system", "performance", "alerts"} : SwitchTab(t)
    \/ RefreshClick
    \/ ToggleMonitoring
    \/ \E k \in 1..MaxAlerts : ClickAcknowledge(k)
    \/ ToastExpire
    \/ \E i \in 1..MaxInFlight : ServerRead(i)
    \/ \E i \in 1..MaxInFlight : ServerReject(i)
    \/ \E i \in 1..MaxInFlight : ToggleFailed(i)
    \/ \E i \in 1..MaxInFlight : ToggleError(i)
    \/ \E i \in 1..MaxInFlight : TransitionFailed(i)
    \/ \E i \in 1..MaxInFlight : TransitionError(i)
    \/ \E i \in 1..MaxInFlight : LoadError(i)
    \/ \E i \in 1..MaxInFlight : StatusLoaded(i)
    \/ \E i \in 1..MaxInFlight : MetricsLoaded(i, CpuTwoSamples)
    \/ \E i \in 1..MaxInFlight : SystemInfoLoaded(i, NoInfo)
    \/ \E i \in 1..MaxInFlight : PerformanceLoaded(i, TwoMetrics)
    \/ \E i \in 1..MaxInFlight : MetricHistoryLoaded(i, <<<<1000, 3>>, <<2000, 4>>>>)
    \/ \E i \in 1..MaxInFlight : AlertsLoaded(i)
    \/ \E i \in 1..MaxInFlight : AlertHistoryLoaded(i)

SpecFailures == InitAlerts /\ [][NextFailures]_vars

\* the step takes exactly one call out of flight, of the kind given, and
\* issues none
TakesOut(kind) ==
    /\ Len(net') = Len(net) - 1
    /\ \E i \in 1..Len(net) :
           /\ net[i].kind = kind
           /\ \A j \in 1..(i - 1) : net'[j] = net[j]
           /\ \A j \in (i + 1)..Len(net) : net'[j - 1] = net[j]

\* C18: the failure of a passive load in transport or in decoding takes the
\* call out of flight and changes nothing else: no view, no notification, no
\* other state of the dashboard; and only the reads are handled that way.
C18_PassiveFailureSilent ==
    [][event'.op = "loadError" =>
          /\ event'.arg \in {"metrics", "sysinfo", "performance", "perfhist",
                             "alerts", "history", "status"}
          /\ TakesOut(event'.arg)
          /\ UNCHANGED <<initialized, currentTab, activePane, timerVars,
                         lastRefresh, now, togVars, toasts, chartVars, sysVars,
                         perfVars, logVisible, alertVars, form>>]_vars

\* a metric-history call fails while the chart shows the data of an earlier
\* response, and nothing is notified
C18_Witness ==
    /\ event.op = "loadError"
    /\ event.arg = "perfhist"
    /\ chartData["performance"].title = "request"
    /\ chartData["performance"].datasets[1].data = <<3, 4>>
    /\ alertView # <<>>
    /\ toasts = <<>>

\* C19: the handler of a mutating call answered with a status other than
\* "success" shows exactly one notification, of type error, and it carries
\* the message of the answer.
C19_FailureCarriesMessage ==
    [][event'.op \in {"toggleFailed", "transitionFailed"} =>
          /\ Len(toasts') = Len(toasts) + 1
          /\ SubSeq(toasts', 1, Len(toasts)) = toasts
          /\ toasts'[Len(toasts')].type = "error"
          /\ \E i \in 1..Len(net) :
                 /\ net[i].kind = event'.arg
                 /\ net[i].done
                 /\ net[i].status # "success"
                 /\ net[i].message # "" =>
                        toasts'[Len(toasts')].detail = net[i].message]_vars

\* the kinds of the calls that change the backend
MutatingKinds == {"start", "stop", "create", "acknowledge", "resolve", "silence"}

\* the kinds of the mutating calls in flight, in the order they were issued
MutatingInFlight(s) ==
    LET calls == SelectSeq(s, LAMBDA m : m.kind \in MutatingKinds)
    IN  [j \in 1..Len(calls) |-> calls[j].kind]

\* C20: a failure handler takes its call out of flight and issues no call;
\* and a mutating call is issued only by the step of a user action, one call
\* per action: every other step leaves the mutating calls in flight as they
\* were or takes one out.
C20_NoRetry ==
    [][/\ event'.op \in {"toggleFailed", "toggleError", "transitionFailed",
                         "transitionError", "loadError"} =>
              TakesOut(event'.arg)
       /\ IF event'.op \in {"toggleMonitoring", "acknowledgeAlert",
                            "resolveAlert", "silenceAlert", "createAlert"}
          THEN /\ Len(net') = Len(net) + 1
               /\ SubSeq(net', 1, Len(net)) = net
          ELSE \/ MutatingInFlight(net') = MutatingInFlight(net)
               \/ \E i \in 1..Len(MutatingInFlight(net)) :
                      MutatingInFlight(net') =
                          [j \in 1..(Len(MutatingInFlight(net)) - 1) |->
                              IF j < i THEN MutatingInFlight(net)[j]
                              ELSE MutatingInFlight(net)[j + 1]]]_vars

\* an acknowledge call failed in transport: it is gone, one notification is
\* shown, and the reads issued meanwhile are still in flight
C20_Witness ==
    /\ event.op = "transitionError"
    /\ event.arg = "acknowledge"
    /\ MutatingInFlight(net) = <<>>
    /\ Len(net) = 2
    /\ Len(toasts) = 1
    /\ toasts[1].type = "error"

(***************************************************************************)
(* Rendering of the active alerts.  The backend holds any list of up to    *)
(* MaxListed active alerts, or the list of four of the documentation; the  *)
(* page is at rest on the alerts tab showing it; alerts clear on the       *)
(* backend by its rules while the user reloads the tab, and the responses  *)
(* arrive in any order.                                                    *)
(***************************************************************************)
MaxListed == 3

AlertNames == <<"a1", "a2", "a3", "a4", "a5">>

\* the active alerts with the severities sevs, in the backend's order
ListOf(sevs) ==
    [i \in 1..Len(sevs) |-> Alert(AlertNames[i], sevs[i], "active", FALSE)]

AlertLists ==
    {ListOf(sevs) : sevs \in UNION {[1..n -> Severities] : n \in 0..MaxListed}}
    \cup {ListOf(<<"warning", "critical", "info", "error">>)}

\* a rule of the backend resolves the first alert that is not resolved
AlertClears ==
    /\ ActiveAlerts(srvAlerts) # <<>>
    /\ Len(srvHistory) < MaxHistory
    /\ LET k == CHOOSE j \in 1..Len(srvAlerts) :
                    /\ srvAlerts[j].status # "resolved"
                    /\ \A h \in 1..(j - 1) : srvAlerts[h].status = "resolved"
       IN  /\ srvAlerts' = [srvAlerts EXCEPT ![k].status = "resolved"]
           /\ srvHistory' = Append(srvHistory,
                                   HistoryEntry(srvAlerts[k].name, "resolved"))
           /\ event' = Ev("server", "rule", k)
    /\ UNCHANGED <<initialized, tabVars, timerVars, lastRefresh, now, togVars,
                   net, toasts, chartVars, sysVars, perfVars, logVars, alertVars,
                   form, srvMonitoring>>

InitAlertRender ==
    /\ srvMonitoring = FALSE
    /\ srvAlerts \in AlertLists
    /\ PageAtRest("alerts")

NextAlertRender ==
    \/ SwitchTab("alerts")
    \/ AlertClears
    \/ \E i \in 1..MaxInFlight : ServerRead(i)
    \/ \E i \in 1..MaxInFlight : AlertsLoaded(i)
    \/ \E i \in 1..MaxInFlight : AlertHistoryLoaded(i)

SpecAlertRender == InitAlertRender /\ [][NextAlertRender]_vars

\* the alert lists with their names and severities only
Severity(alerts) == [k \in 1..Len(alerts) |-> alerts[k].severity]

Names(alerts) == [k \in 1..Len(alerts) |-> alerts[k].name]

\* the position of the alert named name in the list
PositionOf(alerts, name) == CHOOSE k \in 1..Len(alerts) : alerts[k].name = name

\* the rank of a severity: critical < error < warning < info
Rank ==
    [sev \in Severities |->
        CASE sev = "critical" -> 0 [] sev = "error" -> 1
          [] sev = "warning" -> 2 [] sev = "info" -> 3]

\* the active-alerts response the step handles, when it handles one
HandledAlerts ==
    LET i == CHOOSE j \in 1..Len(net) :
                 /\ net[j].kind = "alerts"
                 /\ Len(net') = Len(net) - 1
                 /\ \A h \in 1..(j - 1) : net'[h] = net[h]
                 /\ \A h \in (j + 1)..Len(net) : net'[h - 1] = net[h]
    IN  net[i].alerts

\* C22: the rendered list holds exactly the alerts of the response, ordered
\* by severity rank critical < error < warning < info, alerts of one
\* severity in the order the response gave them; the severities warning,
\* critical, info, error are rendered critical, error, warning, info; and
\* the list of the response is, after the handler, in the order it came in.
C22_SortedBySeverityStable ==
    [][event'.op = "alertsLoaded" =>
          LET resp == HandledAlerts
              view == alertView'
          IN  /\ Len(view) = Len(resp)
              /\ \A k \in 1..Len(resp) : \E p \in 1..Len(view) : view[p] = resp[k]
              /\ \A p, q \in 1..Len(view) :
                     p < q => Rank[view[p].severity] <= Rank[view[q].severity]
              /\ \A p, q \in 1..Len(view) :
                     p < q /\ view[p].severity = view[q].severity =>
                         PositionOf(resp, view[p].name) < PositionOf(resp, view[q].name)
              /\ Severity(resp) = <<"warning", "critical", "info", "error">> =>
                     Severity(view) = <<"critical", "error", "warning", "info">>
              /\ event'.data = resp]_vars

\* the list of the documentation, and alerts of one severity around another
C22_Witness ==
    /\ event.op = "alertsLoaded"
    /\ Severity(event.data) = <<"warning", "critical", "info", "error">>
    /\ Names(alertView) = <<"a2", "a4", "a1", "a3">>

\* C23: after the handler of an active-alerts response, each of the four
\* counters is the number of alerts of its severity in that response,
\* whatever the counters showed before.
C23_CountersFromResponse ==
    [][event'.op = "alertsLoaded" =>
          \A sev \in {"critical", "error", "warning", "info"} :
              alertCounts'[sev] =
                  Cardinality({k \in 1..Len(HandledAlerts) :
                                   HandledAlerts[k].severity = sev})]_vars

\* the critical alert of three cleared: the counter that showed 1 shows 0,
\* and the two errors are still counted
C23_Witness ==
    /\ event.op = "alertsLoaded"
    /\ Len(srvAlerts) = 3
    /\ srvAlerts[1].severity = "critical"
    /\ srvAlerts[1].status = "resolved"
    /\ alertCounts["critical"] = 0
    /\ alertCounts["error"] = 2
    /\ Names(alertView) = <<"a2", "a3">>

(***************************************************************************)
(* Strings as sequences of characters, for the substring tests             *)
(***************************************************************************)
\* the characters of a string
Spell(str) ==
    CASE str = "system.cpu_percent" ->
             <<"s", "y", "s", "t", "e", "m", ".", "c", "p", "u", "_", "p",
             "e", "r", "c", "e", "n", "t">>
      [] str = "system.memory_percent" ->
             <<"s", "y", "s", "t", "e", "m", ".", "m", "e", "m", "o", "r",
             "y", "_", "p", "e", "r", "c", "e", "n", "t">>
      [] str = "system.disk_root_percent" ->
             <<"s", "y", "s", "t", "e", "m", ".", "d", "i", "s", "k", "_",
             "r", "o", "o", "t", "_", "p", "e", "r", "c", "e", "n", "t">>
      [] str = "system.network_total_bytes_recv_per_sec" ->
             <<"s", "y", "s", "t", "e", "m", ".", "n", "e", "t", "w", "o",
             "r", "k", "_", "t", "o", "t", "a", "l", "_", "b", "y", "t", "e",
             "s", "_", "r", "e", "c", "v", "_", "p", "e", "r", "_", "s", "e",
             "c">>
      [] str = "system.network_total_bytes_sent_per_sec" ->
             <<"s", "y", "s", "t", "e", "m", ".", "n", "e", "t", "w", "o",
             "r", "k", "_", "t", "o", "t", "a", "l", "_", "b", "y", "t", "e",
             "s", "_", "s", "e", "n", "t", "_", "p", "e", "r", "_", "s", "e",
             "c">>
      [] str = "system.cpu_memory_ratio" ->
             <<"s", "y", "s", "t", "e", "m", ".", "c", "p", "u", "_", "m",
             "e", "m", "o", "r", "y", "_", "r", "a", "t", "i", "o">>
      [] str = "system.load_average" ->
             <<"s", "y", "s", "t", "e", "m", ".", "l", "o", "a", "d", "_",
             "a", "v", "e", "r", "a", "g", "e">>
      [] str = "cpu" ->
             <<"c", "p", "u">>
      [] str = "memory" ->
             <<"m", "e", "m", "o", "r", "y">>
      [] str = "disk" ->
             <<"d", "i", "s", "k">>
      [] str = "network" ->
             <<"n", "e", "t", "w", "o", "r", "k">>
      [] str = "api" ->
             <<"a", "p", "i">>
      [] str = "agent" ->
             <<"a", "g", "e", "n", "t">>
      [] str = "request_duration" ->
             <<"r", "e", "q", "u", "e", "s", "t", "_", "d", "u", "r", "a",
             "t", "i", "o", "n">>
      [] str = "request_count" ->
             <<"r", "e", "q", "u", "e", "s", "t", "_", "c", "o", "u", "n",
             "t">>
      [] str = "task_duration" ->
             <<"t", "a", "s", "k", "_", "d", "u", "r", "a", "t", "i", "o",
             "n">>
      [] str = "request" ->
             <<"r", "e", "q", "u", "e", "s", "t">>
      [] str = "task" ->
             <<"t", "a", "s", "k">>
      [] str = "_duration" ->
             <<"_", "d", "u", "r", "a", "t", "i", "o", "n">>
      [] str = "DEBUG" ->
             <<"D", "E", "B", "U", "G">>
      [] str = "INFO" ->
             <<"I", "N", "F", "O">>
      [] str = "WARNING" ->
             <<"W", "A", "R", "N", "I", "N", "G">>
      [] str = "ERROR" ->
             <<"E", "R", "R", "O", "R">>
      [] str = "CRITICAL" ->
             <<"C", "R", "I", "T", "I", "C", "A", "L">>
      [] str = "system" ->
             <<"s", "y", "s", "t", "e", "m">>
      [] str = "scheduler" ->
             <<"s", "c", "h", "e", "d", "u", "l", "e", "r">>
      [] str = "system.memory_bytes_percent" ->
             <<"s", "y", "s", "t", "e", "m", ".", "m", "e", "m", "o", "r",
             "y", "_", "b", "y", "t", "e", "s", "_", "p", "e", "r", "c", "e",
             "n", "t">>
      [] str = "system.disk_percent_per_sec" ->
             <<"s", "y", "s", "t", "e", "m", ".", "d", "i", "s", "k", "_",
             "p", "e", "r", "c", "e", "n", "t", "_", "p", "e", "r", "_", "s",
             "e", "c">>
      [] str = "system.memory_available_bytes" ->
             <<"s", "y", "s", "t", "e", "m", ".", "m", "e", "m", "o", "r",
             "y", "_", "a", "v", "a", "i", "l", "a", "b", "l", "e", "_", "b",
             "y", "t", "e", "s">>
      [] str = "system.disk_reads_per_sec" ->
             <<"s", "y", "s", "t", "e", "m", ".", "d", "i", "s", "k", "_",
             "r", "e", "a", "d", "s", "_", "p", "e", "r", "_", "s", "e", "c">>
      [] str = "percent" ->
             <<"p", "e", "r", "c", "e", "n", "t">>
      [] str = "bytes" ->
             <<"b", "y", "t", "e", "s">>
      [] str = "per_sec" ->
             <<"p", "e", "r", "_", "s", "e", "c">>

\* text.includes(part)
Contains(text, part) ==
    \E k \in 0..(Len(text) - Len(part)) : SubSeq(text, k + 1, k + Len(part)) = part

(***************************************************************************)
(* Rendering of the system metrics.  The page starts; the user visits      *)
(* the system tab, and the backend answers each load with the pool of      *)
(* metrics or with any selection of up to MaxPicked of them, in the pool's *)
(* order.                                                                  *)
(***************************************************************************)
\* the metrics a response of GET /api/monitoring/metrics?category=system
\* may hold, with their samples
MetricPool ==
    <<Metric("system.cpu_percent", <<<<1000, 10>>, <<2000, 55>>>>),
      Metric("system.memory_percent", <<<<3000, 40>>>>),
      Metric("system.disk_root_percent", <<<<3000, 20>>>>),
      Metric("system.network_total_bytes_recv_per_sec", <<<<3000, 2048>>>>),
      Metric("system.network_total_bytes_sent_per_sec",
             <<<<3000, 512>>, <<4000, 1024>>>>),
      Metric("system.cpu_memory_ratio", <<<<1000, 2>>>>),
      Metric("system.load_average", <<<<1000, 1>>>>)>>

\* the most metrics of a response, unless it holds the whole pool
MaxPicked == 2

PoolResponses ==
    {SelectSeq(MetricPool, LAMBDA m : m.name \in S) :
        S \in {T \in SUBSET {MetricPool[k].name : k \in 1..Len(MetricPool)} :
                  Cardinality(T) <= MaxPicked \/ Cardinality(T) = Len(MetricPool)}}

NextMetricRender ==
    \/ DashboardInit
    \/ SwitchTab("system")
    \/ \E i \in 1..MaxInFlight : ServerRead(i)
    \/ \E i \in 1..MaxInFlight : StatusLoaded(i)
    \/ \E i \in 1..MaxInFlight : \E r \in PoolResponses : MetricsLoaded(i, r)
    \/ \E i \in 1..MaxInFlight : SystemInfoLoaded(i, NoInfo)

SpecMetricRender == InitSched /\ [][NextMetricRender]_vars

\* the first of cpu, memory, disk, network that is a substring of the name,
\* "" when none is
FirstWord(name) ==
    LET text == Spell(name)
    IN  IF Contains(text, Spell("cpu")) THEN "cpu"
        ELSE IF Contains(text, Spell("memory")) THEN "memory"
        ELSE IF Contains(text, Spell("disk")) THEN "disk"
        ELSE IF Contains(text, Spell("network")) THEN "network"
        ELSE ""

\* the metric named name has a row in the metric table t
InTable(tables, t, name) == \E r \in 1..Len(tables[t]) : tables[t][r].name = name

\* C24: after the handler of a system-metrics response, a metric of the
\* response is in the metric table of a bucket exactly when that bucket is
\* the first of cpu, memory, disk, network whose word is a substring of its
\* name; so it is in at most one bucket.
C24_FirstMatchingBucket ==
    [][event'.op = "metricsLoaded" =>
          \A k \in 1..Len(event'.data) :
              \A t \in {"cpu", "memory", "disk", "network"} :
                  InTable(metricTables', t, event'.data[k].name)
                      <=> t = FirstWord(event'.data[k].name)]_vars

\* a name with the words cpu and memory is in the cpu table only
C24_Witness ==
    /\ event.op = "metricsLoaded"
    /\ Len(event.data) = 2
    /\ event.data[1].name = "system.memory_percent"
    /\ event.data[2].name = "system.cpu_memory_ratio"
    /\ Len(metricTables["cpu"]) = 1
    /\ metricTables["cpu"][1].name = "system.cpu_memory_ratio"
    /\ Len(metricTables["memory"]) = 1
    /\ metricTables["memory"][1].name = "system.memory_percent"

\* the samples of a series are shown by some system chart
InChart(data, series) ==
    /\ series # <<>>
    /\ \/ \E c \in {"cpu", "memory", "disk"} :
               \E d \in 1..Len(data[c].datasets) :
                   data[c].datasets[d].data = Values(series)
       \/ \E d \in 1..Len(data["network"].datasets) :
               data["network"].datasets[d].data = KiloValues(series)

\* C25: after the handler of a system-metrics response, a metric of the
\* response whose name holds none of the words cpu, memory, disk, network
\* is in no system chart and has a row in a metric table of the system tab.
C25_UnmatchedInTable ==
    [][event'.op = "metricsLoaded" =>
          \A k \in 1..Len(event'.data) :
              FirstWord(event'.data[k].name) = "" =>
                  /\ ~InChart(chartData', event'.data[k].values)
                  /\ \E t \in {"cpu", "memory", "disk", "network"} :
                         InTable(metricTables', t, event'.data[k].name)]_vars

\* the series named name in the response, <<>> when it has none
SeriesOf(metricsData, name) ==
    IF \E k \in 1..Len(metricsData) : metricsData[k].name = name
    THEN metricsData[CHOOSE k \in 1..Len(metricsData) :
                         metricsData[k].name = name].values
    ELSE <<>>

\* C27: once the network chart exists it has two datasets, Received and
\* then Sent, and the handler of a system-metrics response leaves the
\* received samples (over 1024) in the first and the sent samples in the
\* second; the charts of the other three slots keep their one dataset.
C27_NetworkDatasetsFixed ==
    /\ charts["network"] # Null =>
           /\ Len(chartData["network"].datasets) = 2
           /\ chartData["network"].datasets[1].label = "Received"
           /\ chartData["network"].datasets[2].label = "Sent"
           /\ event.op = "metricsLoaded" =>
                  LET recv == SeriesOf(event.data,
                                  "system.network_total_bytes_recv_per_sec")
                      sent == SeriesOf(event.data,
                                  "system.network_total_bytes_sent_per_sec")
                  IN  /\ chartData["network"].datasets[1].data =
                             [k \in 1..Len(recv) |->
                                 [num |-> recv[k][2], den |-> 1024]]
                      /\ chartData["network"].datasets[2].data =
                             [k \in 1..Len(sent) |->
                                 [num |-> sent[k][2], den |-> 1024]]
    /\ \A c \in {"cpu", "memory", "disk"} :
           charts[c] # Null => Len(chartData[c].datasets) = 1

\* an update of the chart with both series, after it was created
C27_Witness ==
    /\ event.op = "metricsLoaded"
    /\ event.n = 1
    /\ Len(event.data) = 2
    /\ chartData["network"].datasets[1].data = <<[num |-> 2048, den |-> 1024]>>
    /\ chartData["network"].datasets[2].data =
           <<[num |-> 512, den |-> 1024], [num |-> 1024, den |-> 1024]>>

(***************************************************************************)
(* Rendering of the performance statistics.  The page is at rest; the user *)
(* visits the performance tab, and the backend answers with the categories *)
(* api and agent, one or both in either order, each with up to MaxStats    *)
(* of the metrics request_duration and request_count in any order.         *)
(***************************************************************************)
MaxStats == 2

PerfNames == {"request_duration", "request_count"}

\* the metrics of one category of a response: [name, stats] in any order
StatLists ==
    {[k \in 1..Len(names) |-> [name |-> names[k], stats |-> <<>>]] :
        names \in {ns \in UNION {[1..n -> PerfNames] : n \in 0..MaxStats} :
                      \A p, q \in 1..Len(ns) : p # q => ns[p] # ns[q]}}

PerfPoolResponses ==
    {<<>>}
    \cup {<<PerfCategory(c, ms)>> : c \in {"api", "agent"}, ms \in StatLists}
    \cup {<<PerfCategory(c[1], ms1), PerfCategory(c[2], ms2)>> :
             c \in {<<"api", "agent">>, <<"agent", "api">>},
             ms1 \in StatLists, ms2 \in StatLists}

NextPerfRender ==
    \/ SwitchTab("performance")
    \/ \E i \in 1..MaxInFlight : \E r \in PerfPoolResponses : PerformanceLoaded(i, r)
    \/ \E i \in 1..MaxInFlight : MetricHistoryLoaded(i, <<>>)

SpecPerfRender == InitAlerts /\ [][NextPerfRender]_vars

\* the characters of the names in ascending order: the underscore before
\* the letters
Alphabet ==
    <<"_", "a", "b", "c", "d", "e", "f", "g", "h", "i", "j", "k", "l", "m",
      "n", "o", "p", "q", "r", "s", "t", "u", "v", "w", "x", "y", "z">>

CharRank(ch) == CHOOSE k \in 1..Len(Alphabet) : Alphabet[k] = ch

\* the text s is before the text t, character by character, a prefix first
Before(s, t) ==
    \E k \in 1..(Len(t)) :
        /\ \A j \in 1..(k - 1) : j <= Len(s) /\ s[j] = t[j]
        /\ \/ k > Len(s)
           \/ k <= Len(s) /\ CharRank(s[k]) < CharRank(t[k])

\* name.replace(/_duration$/, '') on the characters of a name
Displayed(text) ==
    LET n == Len(Spell("_duration"))
    IN  IF Len(text) >= n /\ SubSeq(text, Len(text) - n + 1, Len(text)) = Spell("_duration")
        THEN SubSeq(text, 1, Len(text) - n)
        ELSE text

\* the pairs (category, metric name) of a response
PairsOf(metricsData) ==
    UNION {{<<metricsData[c].category, metricsData[c].metrics[k].name>> :
               k \in 1..Len(metricsData[c].metrics)} :
           c \in 1..Len(metricsData)}

\* the name the response gave the metric of a row
ResponseName(metricsData, row) ==
    CHOOSE name \in {pr[2] : pr \in {x \in PairsOf(metricsData) : x[1] = row.category}} :
        Displayed(Spell(name)) = Spell(row.name)

\* the table has one row per pair of the response, and the rows ascend by
\* category
RowsByCategory(metricsData, rows) ==
    /\ Len(rows) = Cardinality(PairsOf(metricsData))
    /\ \A pr \in PairsOf(metricsData) :
           \E r \in 1..Len(rows) :
               /\ rows[r].category = pr[1]
               /\ Spell(rows[r].name) = Displayed(Spell(pr[2]))
    /\ \A p, q \in 1..Len(rows) :
           p < q => ~Before(Spell(rows[q].category), Spell(rows[p].category))

\* C26 as amended: after the handler of a performance response, the table
\* has one row per (category, metric) pair of the response, ascending by
\* category and, within one category, ascending by the name the row shows:
\* the metric name without a trailing _duration.
C26_SortedByDisplayedName ==
    [][event'.op = "performanceLoaded" =>
          /\ RowsByCategory(event'.data, perfTable')
          /\ \A p, q \in 1..Len(perfTable') :
                 p < q /\ perfTable'[p].category = perfTable'[q].category =>
                     Before(Spell(perfTable'[p].name), Spell(perfTable'[q].name))]_vars

\* C26 as stated: after the handler of a performance response, the table
\* has one row per (category, metric) pair of the response, ascending by
\* category and, within one category, ascending by the metric name of the
\* response.
C26_SortedByMetricName ==
    [][event'.op = "performanceLoaded" =>
          /\ RowsByCategory(event'.data, perfTable')
          /\ \A p, q \in 1..Len(perfTable') :
                 p < q /\ perfTable'[p].category = perfTable'[q].category =>
                     Before(Spell(ResponseName(event'.data, perfTable'[p])),
                            Spell(ResponseName(event'.data, perfTable'[q])))]_vars

\* the response lists api before agent and request_duration before
\* request_count; the table shows agent first and request before
\* request_count
C26_Witness ==
    /\ event.op = "performanceLoaded"
    /\ Len(event.data) = 2
    /\ event.data[1].category = "api"
    /\ Len(event.data[1].metrics) = 2
    /\ event.data[1].metrics[1].name = "request_duration"
    /\ Len(event.data[2].metrics) = 1
    /\ Len(perfTable) = 3
    /\ perfTable[1].category = "agent"
    /\ perfTable[2].name = "request"
    /\ perfTable[3].name = "request_count"

(***************************************************************************)
(* The views between handlers.  The page is at rest on the alerts tab; the *)
(* backend holds two alerts or one, which clear by its rules; the user     *)
(* reloads the alerts tab and visits the system tab, whose loads the       *)
(* backend answers with one of three responses, in any order.              *)
(***************************************************************************)
InitViews ==
    /\ srvMonitoring = FALSE
    /\ srvAlerts \in {ListOf(<<"warning", "critical">>), ListOf(<<"error">>)}
    /\ PageAtRest("alerts")

NextViews ==
    \/ \E t \in {"alerts", "system"} : SwitchTab(t)
    \/ AlertClears
    \/ \E i \in 1..MaxInFlight : ServerRead(i)
    \/ \E i \in 1..MaxInFlight : AlertsLoaded(i)
    \/ \E i \in 1..MaxInFlight : AlertHistoryLoaded(i)
    \/ \E i \in 1..MaxInFlight : \E r \in MetricsResponses : MetricsLoaded(i, r)
    \/ \E i \in 1..MaxInFlight : SystemInfoLoaded(i, NoInfo)

SpecViews == InitViews /\ [][NextViews]_vars

\* the labels and the samples of the chart of a slot are those of the series
\* named name of the response
FromResponse(slot, name, metricsData) ==
    LET series == SeriesOf(metricsData, name)
    IN  /\ chartData[slot].labels =
               [k \in 1..Len(series) |-> (series[k][1] \div 1000) % 86400]
        /\ chartData[slot].datasets[1].data =
               [k \in 1..Len(series) |-> series[k][2]]

\* C21: in every state between two handlers, the labels and the samples of
\* the cpu chart, and of the memory chart, are those of one of the responses
\* (or of none, before the first), and each of the four counters is the
\* number of alerts of its severity in the rendered list.
C21_ViewsFromOneResponse ==
    /\ \E r \in MetricsResponses \cup {<<>>} :
           FromResponse("cpu", "system.cpu_percent", r)
    /\ \E r \in MetricsResponses \cup {<<>>} :
           FromResponse("memory", "system.memory_percent", r)
    /\ \A sev \in {"critical", "error", "warning", "info"} :
           alertCounts[sev] =
               Cardinality({k \in 1..Len(alertView) : alertView[k].severity = sev})

\* both views were replaced: the cpu chart shows the two samples, and the
\* list and the counters show the one alert that is left
C21_Witness ==
    /\ chartData["cpu"].labels = <<1, 2>>
    /\ chartData["cpu"].datasets[1].data = <<10, 55>>
    /\ chartData["memory"].labels = <<>>
    /\ Names(alertView) = <<"a2">>
    /\ alertCounts["critical"] = 1
    /\ alertCounts["warning"] = 0
    /\ net # <<>>

(***************************************************************************)
(* Logs tab: the text of the entries, filterLogs and clearLogFilters       *)
(***************************************************************************)
\* log.timestamp of the placeholder logs
LogStamps ==
    <<<<"2", "0", "2", "5", "-", "0", "5", "-", "1", "4", "T", "1", "2", ":",
      "0", "0", ":", "0", "0">>,
      <<"2", "0", "2", "5", "-", "0", "5", "-", "1", "4", "T", "1", "2", ":",
      "0", "0", ":", "0", "1">>,
      <<"2", "0", "2", "5", "-", "0", "5", "-", "1", "4", "T", "1", "2", ":",
      "0", "0", ":", "1", "0">>,
      <<"2", "0", "2", "5", "-", "0", "5", "-", "1", "4", "T", "1", "2", ":",
      "0", "1", ":", "0", "5">>,
      <<"2", "0", "2", "5", "-", "0", "5", "-", "1", "4", "T", "1", "2", ":",
      "0", "1", ":", "2", "3">>,
      <<"2", "0", "2", "5", "-", "0", "5", "-", "1", "4", "T", "1", "2", ":",
      "0", "2", ":", "1", "5">>,
      <<"2", "0", "2", "5", "-", "0", "5", "-", "1", "4", "T", "1", "2", ":",
      "0", "3", ":", "4", "2">>,
      <<"2", "0", "2", "5", "-", "0", "5", "-", "1", "4", "T", "1", "2", ":",
      "0", "4", ":", "3", "0">>,
      <<"2", "0", "2", "5", "-", "0", "5", "-", "1", "4", "T", "1", "2", ":",
      "0", "5", ":", "1", "2">>,
      <<"2", "0", "2", "5", "-", "0", "5", "-", "1", "4", "T", "1", "2", ":",
      "0", "7", ":", "0", "3">>,
      <<"2", "0", "2", "5", "-", "0", "5", "-", "1", "4", "T", "1", "2", ":",
      "0", "7", ":", "4", "5">>,
      <<"2", "0", "2", "5", "-", "0", "5", "-", "1", "4", "T", "1", "2", ":",
      "0", "8", ":", "2", "0">>,
      <<"2", "0", "2", "5", "-", "0", "5", "-", "1", "4", "T", "1", "2", ":",
      "0", "9", ":", "1", "1">>,
      <<"2", "0", "2", "5", "-", "0", "5", "-", "1", "4", "T", "1", "2", ":",
      "1", "0", ":", "3", "0">>,
      <<"2", "0", "2", "5", "-", "0", "5", "-", "1", "4", "T", "1", "2", ":",
      "1", "1", ":", "5", "5">>>>

\* log.message of the placeholder logs
LogMessages ==
    <<<<"S", "y", "s", "t", "e", "m", " ", "s", "t", "a", "r", "t", "e", "d">>,
      <<"A", "g", "e", "n", "t", " ", "i", "n", "i", "t", "i", "a", "l", "i",
      "z", "a", "t", "i", "o", "n", " ", "c", "o", "m", "p", "l", "e", "t",
      "e">>,
      <<"A", "P", "I", " ", "s", "e", "r", "v", "e", "r", " ", "l", "i", "s",
      "t", "e", "n", "i", "n", "g", " ", "o", "n", " ", "p", "o", "r", "t",
      " ", "8", "0", "0", "1">>,
      <<"P", "r", "o", "c", "e", "s", "s", "i", "n", "g", " ", "t", "a", "s",
      "k", " ", "#", "1", "2", "3", "4">>,
      <<"T", "a", "s", "k", " ", "p", "r", "o", "c", "e", "s", "s", "i", "n",
      "g", " ", "t", "a", "k", "i", "n", "g", " ", "l", "o", "n", "g", "e",
      "r", " ", "t", "h", "a", "n", " ", "e", "x", "p", "e", "c", "t", "e",
      "d">>,
      <<"F", "a", "i", "l", "e", "d", " ", "t", "o", " ", "c", "o", "n", "n",
      "e", "c", "t", " ", "t", "o", " ", "e", "x", "t", "e", "r", "n", "a",
      "l", " ", "s", "e", "r", "v", "i", "c", "e", ":", " ", "C", "o", "n",
      "n", "e", "c", "t", "i", "o", "n", " ", "t", "i", "m", "e", "o", "u",
      "t">>,
      <<"S", "c", "h", "e", "d", "u", "l", "e", "d", " ", "t", "a", "s", "k",
      " ", "e", "x", "e", "c", "u", "t", "e", "d", " ", "s", "u", "c", "c",
      "e", "s", "s", "f", "u", "l", "l", "y">>,
      <<"M", "e", "m", "o", "r", "y", " ", "c", "a", "c", "h", "e", " ", "o",
      "p", "t", "i", "m", "i", "z", "e", "d">>,
      <<"T", "a", "s", "k", " ", "#", "1", "2", "3", "4", " ", "c", "o", "m",
      "p", "l", "e", "t", "e", "d", " ", "s", "u", "c", "c", "e", "s", "s",
      "f", "u", "l", "l", "y">>,
      <<"O", "u", "t", " ", "o", "f", " ", "d", "i", "s", "k", " ", "s", "p",
      "a", "c", "e", " ", "o", "n", " ", "/", "v", "a", "r", "/", "l", "o",
      "g">>,
      <<"T", "a", "s", "k", " ", "#", "4", "5", "6", "7", " ", "d", "e", "l",
      "a", "y", "e", "d", " ", "d", "u", "e", " ", "t", "o", " ", "r", "e",
      "s", "o", "u", "r", "c", "e", " ", "c", "o", "n", "s", "t", "r", "a",
      "i", "n", "t", "s">>,
      <<"R", "e", "c", "e", "i", "v", "e", "d", " ", "r", "e", "q", "u", "e",
      "s", "t", " ", "f", "o", "r", " ", "/", "a", "p", "i", "/", "t", "a",
      "s", "k", "s">>,
      <<"L", "o", "a", "d", "e", "d", " ", "m", "o", "d", "e", "l", " ", "f",
      "r", "o", "m", " ", "c", "a", "c", "h", "e">>,
      <<"F", "a", "i", "l", "e", "d", " ", "t", "o", " ", "e", "x", "e", "c",
      "u", "t", "e", " ", "s", "c", "h", "e", "d", "u", "l", "e", "d", " ",
      "t", "a", "s", "k", ":", " ", "T", "a", "s", "k", " ", "n", "o", "t",
      " ", "f", "o", "u", "n", "d">>,
      <<"D", "i", "s", "k", " ", "s", "p", "a", "c", "e", " ", "c", "l", "e",
      "a", "n", "u", "p", " ", "c", "o", "m", "p", "l", "e", "t", "e", "d">>>>

\* the white space of the template of an entry: a line break and the
\* indentation before each span, and before the end
Gap(n) == <<"\n">> \o [k \in 1..n |-> " "]

\* entry.querySelector('.log-component').textContent
ComponentText(k) == Spell(SimulatedLogs[k].component) \o <<":">>

\* entry.textContent: the text of the four spans and the white space
\* between them
EntryText(k) ==
    Gap(20) \o LogStamps[k]
    \o Gap(20) \o <<"[">> \o Spell(SimulatedLogs[k].level) \o <<"]">>
    \o Gap(20) \o ComponentText(k)
    \o Gap(20) \o LogMessages[k]
    \o Gap(16)

\* the classes of an entry after the prefix log-: log-entry and log-LEVEL
EntryClasses(k) == {"entry", SimulatedLogs[k].level}

UpperCase ==
    <<"A", "B", "C", "D", "E", "F", "G", "H", "I", "J", "K", "L", "M", "N",
    "O", "P", "Q", "R", "S", "T", "U", "V", "W", "X", "Y", "Z">>

LowerCase ==
    <<"a", "b", "c", "d", "e", "f", "g", "h", "i", "j", "k", "l", "m", "n",
    "o", "p", "q", "r", "s", "t", "u", "v", "w", "x", "y", "z">>

\* a faulty variant: the case of the characters is kept
ToLowerKeeping(ch) == ch

\* String.prototype.toLowerCase, character by character
ToLower(ch) ==
    IF \E k \in 1..Len(UpperCase) : UpperCase[k] = ch
    THEN LowerCase[CHOOSE k \in 1..Len(UpperCase) : UpperCase[k] = ch]
    ELSE ch

LowerText(text) == [k \in 1..Len(text) |-> ToLower(text[k])]

\* the body of the forEach of filterLogs for the k-th entry
Passes(k, f) ==
    /\ f.level # "" => f.level \in EntryClasses(k)
    /\ f.component # "" => Contains(ComponentText(k), Spell(f.component))
    /\ LowerText(f.search) # <<>> =>
           Contains(LowerText(EntryText(k)), LowerText(f.search))

\* a faulty variant: an entry that is hidden stays hidden
VisibilityNarrowing(f) ==
    [k \in 1..Len(logEntries) |-> logVisible[k] /\ Passes(logEntries[k], f)]

\* filterLogs(): entry.style.display of every entry, from the three controls
Visibility(f) == [k \in 1..Len(logEntries) |-> Passes(logEntries[k], f)]

\* the components of the log-component select after simulateLogs
ComponentOptions ==
    {""} \cup {SimulatedLogs[logEntries[k]].component : k \in 1..Len(logEntries)}

\* the texts the user types into the search input
SearchInputs ==
    {<<>>, <<"T", "a", "s", "k">>, <<"s", "y", "s", "t", "e", "m", ":">>,
     <<"[", "i", "n", "f", "o", "]">>, <<"a", "p", "i">>}

\* a change of the log-level select to the option level: filterLogs()
SelectLogLevel(level) ==
    /\ initialized
    /\ "logs" \in activePane
    /\ logFilter' = [logFilter EXCEPT !.level = level]
    /\ logVisible' = Visibility([logFilter EXCEPT !.level = level])
    /\ event' = Ev("filterLogs", "level", 0)
    /\ UNCHANGED <<logEntries, initialized, tabVars, timerVars, lastRefresh, now, togVars,
                   net, toasts, chartVars, sysVars, perfVars, alertVars, form,
                   srvVars>>

\* a change of the log-component select to the option component: filterLogs()
SelectLogComponent(component) ==
    /\ initialized
    /\ "logs" \in activePane
    /\ component \in ComponentOptions
    /\ logFilter' = [logFilter EXCEPT !.component = component]
    /\ logVisible' = Visibility([logFilter EXCEPT !.component = component])
    /\ event' = Ev("filterLogs", "component", 0)
    /\ UNCHANGED <<logEntries, initialized, tabVars, timerVars, lastRefresh, now, togVars,
                   net, toasts, chartVars, sysVars, perfVars, alertVars, form,
                   srvVars>>

\* an input in the log-search field leaving the text search: filterLogs()
TypeLogSearch(search) ==
    /\ initialized
    /\ "logs" \in activePane
    /\ logFilter' = [logFilter EXCEPT !.search = search]
    /\ logVisible' = Visibility([logFilter EXCEPT !.search = search])
    /\ event' = Ev("filterLogs", "search", 0)
    /\ UNCHANGED <<logEntries, initialized, tabVars, timerVars, lastRefresh, now, togVars,
                   net, toasts, chartVars, sysVars, perfVars, alertVars, form,
                   srvVars>>

\* a faulty variant: the selects go back to the options the template selects
ClearedFilterToDefault == DefaultFilter

\* selectedIndex = 0 of both selects (the options with the value "") and
\* value = '' of the search input
ClearedFilter == [level |-> "", component |-> "", search |-> <<>>]

\* a faulty variant: the entries that were hidden are taken out of the
\* container
ClearLogFiltersDroppingHidden ==
    /\ initialized
    /\ "logs" \in activePane
    /\ logFilter' = ClearedFilter
    /\ logEntries' = SelectSeq(logEntries,
                         LAMBDA e : \E k \in 1..Len(logEntries) :
                                        logEntries[k] = e /\ logVisible[k])
    /\ logVisible' = [k \in 1..Len(logEntries') |-> TRUE]
    /\ event' = Ev("clearLogFilters", "", 0)
    /\ UNCHANGED <<initialized, tabVars, timerVars, lastRefresh, now, togVars,
                   net, toasts, chartVars, sysVars, perfVars, alertVars, form,
                   srvVars>>

\* a click on clear-logs: clearLogFilters()
ClearLogFilters ==
    /\ initialized
    /\ "logs" \in activePane
    /\ logFilter' = ClearedFilter
    /\ logVisible' = [k \in 1..Len(logEntries) |-> TRUE]
    /\ event' = Ev("clearLogFilters", "", 0)
    /\ UNCHANGED <<logEntries, initialized, tabVars, timerVars, lastRefresh, now, togVars,
                   net, toasts, chartVars, sysVars, perfVars, alertVars, form,
                   srvVars>>

(***************************************************************************)
(* Specification of the log filters.  The page is at rest on the logs tab; *)
(* the user picks levels and components, types searches, clears the        *)
(* filters and reloads the tab, in any order.                              *)
(***************************************************************************)
LevelOptions == {"", "DEBUG", "INFO", "WARNING", "ERROR", "CRITICAL"}

InitLogs ==
    /\ srvMonitoring = FALSE
    /\ srvAlerts = <<>>
    /\ PageAtRest("logs")

NextLogs ==
    \/ \E level \in LevelOptions : SelectLogLevel(level)
    \/ \E component \in {"", "system", "agent", "api", "scheduler", "memory"} :
           SelectLogComponent(component)
    \/ \E search \in SearchInputs : TypeLogSearch(search)
    \/ ClearLogFilters
    \/ SwitchTab("logs")

SpecLogs == InitLogs /\ [][NextLogs]_vars

\* two characters are the same letter, in either case, or the same character
SameIgnoringCase(a, b) ==
    \/ a = b
    \/ \E j \in 1..Len(UpperCase) : {a, b} = {UpperCase[j], LowerCase[j]}

\* the text holds the part somewhere, the case of the letters ignored
ContainsIgnoringCase(text, part) ==
    \E s \in 0..(Len(text) - Len(part)) :
        \A j \in 1..Len(part) : SameIgnoringCase(text[s + j], part[j])

\* C28: after filterLogs, an entry is visible exactly when the level
\* control is empty or is the entry's level, and the component control is
\* empty or is a substring of the entry's component, and the search text is
\* empty or is found in the entry's rendered text, the case of the letters
\* ignored.
C28_FilterPredicate ==
    [][event'.op = "filterLogs" =>
          /\ Len(logVisible') = Len(SimulatedLogs)
          /\ \A k \in 1..Len(SimulatedLogs) :
                 logVisible'[k] <=>
                     /\ \/ logFilter'.level = ""
                        \/ SimulatedLogs[k].level = logFilter'.level
                     /\ \/ logFilter'.component = ""
                        \/ Contains(Spell(SimulatedLogs[k].component),
                                    Spell(logFilter'.component))
                     /\ \/ logFilter'.search = <<>>
                        \/ ContainsIgnoringCase(EntryText(k), logFilter'.search)]_vars

\* the three controls set: of the INFO entries of the agent only the one
\* with "Task" in its message is left
C28_Witness ==
    /\ event.op = "filterLogs"
    /\ logFilter.level = "INFO"
    /\ logFilter.component = "agent"
    /\ logFilter.search = <<"T", "a", "s", "k">>
    /\ {k \in 1..Len(logVisible) : logVisible[k]} = {9}

\* C29: filterLogs with the level ERROR and the other two controls empty
\* leaves exactly the entries of level ERROR visible, whatever was visible
\* before; and filterLogs run again with the controls as the last run left
\* them changes the visibility of no entry.
C29_FilterHistoryFree ==
    [][event'.op = "filterLogs" =>
          /\ logFilter' = [level |-> "ERROR", component |-> "", search |-> <<>>] =>
                 \A k \in 1..Len(SimulatedLogs) :
                     logVisible'[k] <=> SimulatedLogs[k].level = "ERROR"
          /\ event.op = "filterLogs" /\ logFilter' = logFilter =>
                 logVisible' = logVisible]_vars

\* the two ERROR entries are visible, and no other
C29_Witness ==
    /\ event.op = "filterLogs"
    /\ logFilter.level = "ERROR"
    /\ logFilter.component = ""
    /\ logFilter.search = <<>>
    /\ {k \in 1..Len(logVisible) : logVisible[k]} = {6, 14}

\* C30: clearLogFilters leaves the level, the component and the search
\* control empty and every entry visible.
C30_ClearShowsAll ==
    [][event'.op = "clearLogFilters" =>
          /\ logFilter'.level = ""
          /\ logFilter'.component = ""
          /\ logFilter'.search = <<>>
          /\ Len(logVisible') = Len(logVisible)
          /\ \A k \in 1..Len(logVisible') : logVisible'[k]]_vars

\* the filters were cleared on the logs tab
C30_Witness ==
    /\ event.op = "clearLogFilters"
    /\ currentTab = "logs"
    /\ logFilter = [level |-> "", component |-> "", search |-> <<>>]
    /\ logVisible = [k \in 1..Len(SimulatedLogs) |-> TRUE]

\* C31: filterLogs and clearLogFilters leave the entries of the container
\* and their order as they were; only the visibility of entries changes.
C31_FilterKeepsBuffer ==
    [][event'.op \in {"filterLogs", "clearLogFilters"} =>
          /\ logEntries' = logEntries
          /\ Len(logVisible') = Len(logEntries)
          /\ UNCHANGED chartVars]_vars

\* a filter has hidden every entry; the fifteen entries are in the
\* container, in the order of the load
C31_Witness ==
    /\ event.op = "filterLogs"
    /\ logEntries = [k \in 1..Len(SimulatedLogs) |-> k]
    /\ Len(logVisible) = 15
    /\ \A k \in 1..Len(logVisible) : ~logVisible[k]

(***************************************************************************)
(* Specification of the notifications.  The page is at rest on the logs    *)
(* tab; handlers call showToast, the timers of the notifications run out,  *)
(* and the user may reload the tab.  The notifications on display at one   *)
(* time have different messages, so that each can be followed; showToast   *)
(* does not read the message.  Every notification has timers of its own    *)
(* with the same delays, so they run out in the order the notifications    *)
(* were shown.                                                             *)
(***************************************************************************)
\* the most notifications on display at one time
MaxShown == 3

\* the notifications the handlers show
ToastInputs ==
    {Toast("success", "Monitoring started", ""),
     Toast("success", "Monitoring stopped", ""),
     Toast("error", "Failed to start monitoring", ""),
     Toast("error", "Failed to stop monitoring", ""),
     Toast("success", "Alert created", "a1"),
     Toast("error", "Error creating alert", "")}

\* the notification t is on display
OnDisplay(t) == \E k \in 1..Len(toasts) : toasts[k] = t

\* a handler calls showToast(message, type)
ShowToastCall(t) ==
    /\ initialized
    /\ Len(toasts) < MaxShown
    /\ ~OnDisplay(t)
    /\ ShowToast(t)
    /\ event' = Ev("showToast", t.text, 0)
    /\ UNCHANGED <<initialized, tabVars, timerVars, lastRefresh, now, togVars,
                   net, chartVars, sysVars, perfVars, logVars, alertVars,
                   form, srvVars>>

InitToasts ==
    /\ srvMonitoring = FALSE
    /\ srvAlerts = <<>>
    /\ PageAtRest("logs")

NextToasts ==
    \/ \E t \in ToastInputs : ShowToastCall(t)
    \/ ToastExpire
    \/ SwitchTab("logs")

SpecToasts == InitToasts /\ [][NextToasts]_vars

\* the timers of the notifications run out whatever the user does
SpecToastsFair == SpecToasts /\ WF_vars(ToastExpire)

\* C32: a notification on display is eventually off display, with no
\* fairness asked of any user action; and a step that removes a notification
\* removes that one alone, the later ones staying on display in their order.
C32_ToastsExpireAlone ==
    /\ \A t \in ToastInputs : OnDisplay(t) ~> ~OnDisplay(t)
    /\ [][event'.op = "toastExpire" =>
             /\ toasts # <<>>
             /\ toasts' = Tail(toasts)
             /\ \A k \in 2..Len(toasts) : toasts'[k - 1] = toasts[k]]_vars

\* one notification was removed while two others stay on display
C32_Witness ==
    /\ event.op = "toastExpire"
    /\ Len(toasts) = 2
    /\ toasts[1] # toasts[2]

(***************************************************************************)
(* Specification of the byte counts.  The page starts on the system tab;   *)
(* the backend holds no metrics and reports a total and an available       *)
(* memory, which updateSystemInfo shows with formatBytes.                  *)
(***************************************************************************)
\* the byte counts of the responses: small ones and the ones around the
\* first two changes of unit
ByteInputs ==
    (0..40) \cup (1000..1060) \cup (1048540..1048600)
        \cup {1536, 104857, 5767168, 10485760}

InfoResponses == {SystemInfo(b, b \div 2) : b \in ByteInputs}

NextBytes ==
    \/ DashboardInit
    \/ \E i \in 1..MaxInFlight : ServerRead(i)
    \/ \E i \in 1..MaxInFlight : StatusLoaded(i)
    \/ \E i \in 1..MaxInFlight : MetricsLoaded(i, <<>>)
    \/ \E i \in 1..MaxInFlight : \E info \in InfoResponses :
           SystemInfoLoaded(i, info)

SpecBytes == InitSched /\ [][NextBytes]_vars

\* the unit index i of a byte count >= 1: 1024^i <= bytes < 1024^(i+1)
IndexOf(bytes) ==
    CHOOSE i \in 0..2 : Pow1024(i) <= bytes /\ bytes < Pow1024(i + 1)

\* the difference of two numbers
Distance(a, b) == IF a < b THEN b - a ELSE a - b

\* what the claim asks of the text shown for a byte count
RoundTrips(bytes, shown) ==
    IF bytes = 0 THEN shown.hundredths = 0 /\ shown.unit = "Bytes"
    ELSE LET i == IndexOf(bytes)
         IN  /\ shown.unit = Sizes[i + 1]
             /\ shown.hundredths < 1024 * 100
             /\ 2 * Distance(100 * bytes, shown.hundredths * Pow1024(i))
                    <= Pow1024(i)

\* C33: formatBytes(0) is "0 Bytes"; for a byte count >= 1 the unit has the
\* index i with 1024^i <= bytes < 1024^(i+1), the number shown is below
\* 1024, and bytes is the number shown times 1024^i within half a hundredth
\* of the unit.
C33_FormatBytesRoundTrips ==
    [][event'.op = "systemInfoLoaded" /\ event'.data # <<>> =>
          /\ RoundTrips(event'.data[1].total, sysInfoView'[1].text)
          /\ RoundTrips(event'.data[1].available, sysInfoView'[2].text)]_vars

(***************************************************************************)
(* Specification of the metric tables' values.  As the rendering of the    *)
(* system metrics, with metrics whose names hold percent, bytes and        *)
(* per_sec in every combination that falls into a bucket.  The samples     *)
(* are whole numbers.                                                      *)
(***************************************************************************)
FormatPool ==
    <<Metric("system.cpu_percent", <<<<1000, 10>>, <<2000, 55>>>>),
      Metric("system.memory_bytes_percent", <<<<1000, 2048>>, <<2000, 40>>>>),
      Metric("system.disk_percent_per_sec", <<<<3000, 7>>>>),
      Metric("system.memory_available_bytes", <<<<3000, 1536>>>>),
      Metric("system.network_total_bytes_recv_per_sec", <<<<3000, 2048>>>>),
      Metric("system.disk_reads_per_sec", <<<<3000, 5>>, <<4000, 12>>>>),
      Metric("system.cpu_memory_ratio", <<<<1000, 2>>>>)>>

FormatResponses ==
    {SelectSeq(FormatPool, LAMBDA m : m.name \in S) :
        S \in {T \in SUBSET {FormatPool[k].name : k \in 1..Len(FormatPool)} :
                  Cardinality(T) <= MaxPicked \/ Cardinality(T) = Len(FormatPool)}}

NextFormat ==
    \/ DashboardInit
    \/ SwitchTab("system")
    \/ \E i \in 1..MaxInFlight : ServerRead(i)
    \/ \E i \in 1..MaxInFlight : StatusLoaded(i)
    \/ \E i \in 1..MaxInFlight : \E r \in FormatResponses : MetricsLoaded(i, r)
    \/ \E i \in 1..MaxInFlight : SystemInfoLoaded(i, NoInfo)

SpecFormat == InitSched /\ [][NextFormat]_vars

\* the name holds the word
Holds(name, word) == Contains(Spell(name), Spell(word))

\* the last sample of the metric in the response
LastSample(metricsData, name) ==
    LET series == SeriesOf(metricsData, name) IN series[Len(series)][2]

\* the rows of the four metric tables
TableRows(tables) ==
    UNION {{tables[t][k] : k \in 1..Len(tables[t])} : t \in DOMAIN tables}

\* C34: after a response of metrics is rendered, every row of a metric
\* table whose name holds percent shows the last sample of the metric with
\* two decimals and then "%", whether or not the name holds bytes or per_sec.
C34_PercentFirst ==
    [][event'.op = "metricsLoaded" =>
          \A row \in TableRows(metricTables') :
              Holds(row.name, "percent") =>
                  /\ row.text.hundredths = 100 * LastSample(event'.data, row.name)
                  /\ row.text.fixed
                  /\ row.text.unit = ""
                  /\ row.text.suffix = "%"]_vars

\* a metric with percent and bytes in its name and one with percent and
\* per_sec are in the tables, each with its last sample as a percentage
C34_Witness ==
    /\ event.op = "metricsLoaded"
    /\ \E row \in TableRows(metricTables) :
           /\ row.name = "system.memory_bytes_percent"
           /\ row.text = [hundredths |-> 4000, fixed |-> TRUE, unit |-> "",
                          suffix |-> "%"]
    /\ \E row \in TableRows(metricTables) :
           /\ row.name = "system.disk_percent_per_sec"
           /\ row.text.suffix = "%"

\* C40: after a response of metrics is rendered, every row of a metric
\* table whose name holds per_sec and not percent ends in "/s": the byte
\* text of formatBytes and "/s" when the name holds bytes, the last sample
\* with two decimals and "/s" when it does not.
C40_RateSuffix ==
    [][event'.op = "metricsLoaded" =>
          \A row \in TableRows(metricTables') :
              Holds(row.name, "per_sec") /\ ~Holds(row.name, "percent") =>
                  LET v == LastSample(event'.data, row.name)
                  IN  IF Holds(row.name, "bytes")
                      THEN row.text = [FormatBytes(v) EXCEPT !.suffix = "/s"]
                      ELSE row.text = [hundredths |-> 100 * v, fixed |-> TRUE,
                                       unit |-> "", suffix |-> "/s"]]_vars

(***************************************************************************)
(* Specification of the monitoring flag.  The page is at rest on the logs  *)
(* tab; the user toggles and refreshes, the backend answers every call     *)
(* with success, no call fails, and nothing else starts or stops the       *)
(* monitoring system.                                                      *)
(***************************************************************************)
NextStatus ==
    \/ RefreshClick
    \/ ToggleMonitoring
    \/ ToastExpire
    \/ \E i \in 1..MaxInFlight : ServerRead(i)
    \/ \E i \in 1..MaxInFlight : ServerControl(i)
    \/ \E i \in 1..MaxInFlight : ToggleSucceeded(i)
    \/ \E i \in 1..MaxInFlight : StatusLoaded(i)

SpecStatus == InitToggle /\ [][NextStatus]_vars

\* C35: between handlers the toggle button reads 'Stop Monitoring' exactly
\* when monitoringActive is true.
C35_ButtonShowsFlag ==
    initialized => (button.text = StopLabel <=> monitoringActive)

\* C36: when no start or stop call and no status query is in flight,
\* monitoringActive is the run state of the backend.
C36_FlagIsServerState ==
    (initialized /\ \A k \in 1..Len(net) : net[k].kind \notin {"start", "stop", "status"})
        => monitoringActive = srvMonitoring

\* the entry k satisfies the level, component and search predicates f
Satisfies(k, f) ==
    /\ f.level = "" \/ SimulatedLogs[k].level = f.level
    /\ f.component = ""
           \/ Contains(Spell(SimulatedLogs[k].component), Spell(f.component))
    /\ f.search = <<>> \/ ContainsIgnoringCase(EntryText(k), f.search)

\* C37: whenever the logs container holds entries, an entry is visible
\* exactly when it satisfies the predicates the filter controls are set to,
\* after reloads as after filterLogs and clearLogFilters.
C37_VisibleIffPredicates ==
    \A k \in 1..Len(logEntries) :
        logVisible[k] <=> Satisfies(logEntries[k], logFilter)

(***************************************************************************)
(* Specification of the controller's fields.  The page is at rest on the   *)
(* logs tab; the user reloads the tab, changes the interval, refreshes and *)
(* toggles the monitoring; the backend answers every call with success.    *)
(***************************************************************************)
NextFields ==
    \/ SwitchTab("logs")
    \/ \E seconds \in RefreshInputs : SetAutoRefresh(seconds)
    \/ RefreshClick
    \/ \E t \in 1..MaxTimerId : TimerTick(t)
    \/ Advance
    \/ ToggleMonitoring
    \/ ToastExpire
    \/ \E i \in 1..MaxInFlight : ServerRead(i)
    \/ \E i \in 1..MaxInFlight : ServerControl(i)
    \/ \E i \in 1..MaxInFlight : ToggleSucceeded(i)
    \/ \E i \in 1..MaxInFlight : StatusLoaded(i)

SpecFields == InitToggle /\ [][NextFields]_vars

\* C38: switchTab leaves lastRefresh, monitoringActive and the refresh
\* timer as they were; setAutoRefresh leaves currentTab, lastRefresh and
\* monitoringActive as they were and issues no call; lastRefresh changes
\* only in refreshDashboard (called by the refresh button and the timer)
\* and monitoringActive only in the handlers of toggle and status responses.
C38_FieldsWrittenByOwners ==
    [][/\ event'.op = "switchTab" =>
              UNCHANGED <<lastRefresh, monitoringActive, refreshTimer, liveTimers>>
       /\ event'.op = "setAutoRefresh" =>
              UNCHANGED <<currentTab, lastRefresh, monitoringActive, net,
                          chartVars, logVars>>
       /\ lastRefresh' # lastRefresh =>
              event'.op \in {"refreshDashboard", "tick"}
       /\ monitoringActive' # monitoringActive =>
              event'.op \in {"toggleSucceeded", "statusLoaded"}]_vars

\* the user switched to the logs tab after a refresh at a later time, with
\* the monitoring shown as active and a timer armed
C38_Witness ==
    /\ event.op = "switchTab"
    /\ currentTab = "logs"
    /\ lastRefresh = 2
    /\ monitoringActive
    /\ refreshTimer # Null

\* C39: after a response of metrics is rendered, the network chart has as
\* many labels as its received dataset and as its sent dataset have values.
C39_NetworkLabelsMatchValues ==
    [][event'.op = "metricsLoaded" /\ charts'["network"] # Null =>
          /\ Len(chartData'["network"].labels)
                 = Len(chartData'["network"].datasets[1].data)
          /\ Len(chartData'["network"].labels)
                 = Len(chartData'["network"].datasets[2].data)]_vars

=============================================================================
